---------------------------- MODULE Spec2Model ----------------------------
(***************************************************************************)
(* Filesystem-instance lifecycle of libbcachefs/super.c: the RW/RO state    *)
(* machine of struct bch_fs, startup, emergency read-only, shutdown, the    *)
(* registry bch_fs_list and the device membership guard.                    *)
(*                                                                          *)
(* One record per struct bch_fs (variable fs), holding the fields of the    *)
(* instance the code reads and writes, its device table c->devs[], the      *)
(* holder of c->state_lock and the position of each thread that is inside   *)
(* one of the instance's blocking functions.  Functions of super.c that run *)
(* to completion under state_lock are operators from the instance record to *)
(* the instance record; the actions apply them.                             *)
(***************************************************************************)
EXTENDS Integers, Sequences, FiniteSets, TLC

VARIABLES fs, bch_fs_list, panic, last

vars == <<fs, bch_fs_list, panic, last>>

-----------------------------------------------------------------------------
(* Bounds of the model *)

MaxInst == 2        \* struct bch_fs objects that can ever be allocated
NrDevs == 2         \* member slots of a filesystem (c->sb.nr_devices)
MaxWrites == 1      \* foreground writes holding a reference on c->writes
MaxEroCalls == 2    \* calls of bch2_fs_emergency_read_only that are recorded
MaxReplicas == 2    \* largest metadata_replicas / data_replicas option tried
MaxSeq == 1         \* largest superblock sequence number a device brings
MaxRefs == 1        \* references on c->cl held by callers of the lookups
MaxBuckets == 4096  \* buckets of a device whose reserves are sized

Inst == 1..MaxInst
Slot == 0..(NrDevs - 1)
UUIDs == {"A"}

MemberStates == {"RW", "RO", "FAILED", "SPARE"}
FsStates == {"STARTING", "RO", "RW", "STOPPING"}
Threads == {"user", "work"}

BCH_FORCE_IF_DATA_DEGRADED == "BCH_FORCE_IF_DATA_DEGRADED"
BCH_FORCE_IF_METADATA_DEGRADED == "BCH_FORCE_IF_METADATA_DEGRADED"
ForceFlags == SUBSET {BCH_FORCE_IF_DATA_DEGRADED, BCH_FORCE_IF_METADATA_DEGRADED}

Max(a, b) == IF a >= b THEN a ELSE b


-----------------------------------------------------------------------------
(* Options (struct bch_opts) the code of super.c reads *)

ReplicaOpts ==
    {[metadata_replicas |-> m, metadata_replicas_required |-> mr,
      data_replicas |-> d, data_replicas_required |-> dr] :
        m \in 1..MaxReplicas, mr \in 1..MaxReplicas,
        d \in 1..MaxReplicas, dr \in 1..MaxReplicas}

\* bch2_fs_alloc: nochanges |= noreplay; read_only |= nochanges
StartOpts ==
    {o \in [read_only : BOOLEAN, noreplay : BOOLEAN, nostart : BOOLEAN] :
        o.noreplay => o.read_only}

-----------------------------------------------------------------------------
(* struct bch_dev, one per slot of c->devs[] *)

NoDev ==
    [present |-> FALSE, online |-> FALSE, mi_state |-> "RW",
     allocator |-> FALSE, moving_gc |-> FALSE, in_pool |-> FALSE]

\* bch2_dev_alloc: the record of a member slot, no block device attached
bch2_dev_alloc(mi_state) ==
    [present |-> TRUE, online |-> FALSE, mi_state |-> mi_state,
     allocator |-> FALSE, moving_gc |-> FALSE, in_pool |-> FALSE]

\* (variant: free_inc as large as the moving-gc reserve)
DevReservesFreeIncFull(nbuckets) ==
    LET movinggc_reserve == Max(16, nbuckets \div 2^7)
    IN  [movinggc_reserve |-> movinggc_reserve,
         reserve_none |-> Max(4, nbuckets \div 2^9),
         free_inc_reserve |-> movinggc_reserve,
         heap_size |-> movinggc_reserve * 8]

\* bch2_dev_alloc, the sizes of the reserves of a device with nbuckets
\* buckets: max_t(size_t, 16, nbuckets >> 7), max_t(size_t, 4, nbuckets >> 9),
\* movinggc_reserve / 2, movinggc_reserve * 8
DevReserves(nbuckets) ==
    LET movinggc_reserve == Max(16, nbuckets \div 2^7)
    IN  [movinggc_reserve |-> movinggc_reserve,
         reserve_none |-> Max(4, nbuckets \div 2^9),
         free_inc_reserve |-> movinggc_reserve \div 2,
         heap_size |-> movinggc_reserve * 8]

\* __bch2_dev_online, commit part: attach the handle; a member in state RW
\* joins the allocation pool at once
DevOnlineCommit(ca) ==
    [ca EXCEPT !.online = TRUE,
               !.in_pool = (ca.mi_state = "RW") \/ ca.in_pool]

-----------------------------------------------------------------------------
(* struct bch_sb, the parts super.c reads and writes itself: the sequence    *)
(* number, nr_devices and the UUID of every slot of the member table         *)

ZeroUuid == "zero"
MemberUuid == "uuid"

NoSb == [seq |-> 0, nr_devices |-> 0, uuid |-> [i \in Slot |-> ZeroUuid]]

\* bch2_dev_exists(sb, mi, dev_idx)
bch2_dev_exists(sb, i) == i < sb.nr_devices /\ sb.uuid[i] # ZeroUuid

\* The superblock of a filesystem whose member table is mi ("none": no member)
SbOfMembers(mi) ==
    [seq |-> 0,
     nr_devices |-> IF \A i \in Slot : mi[i] = "none" THEN 0
                    ELSE 1 + CHOOSE i \in Slot :
                             /\ mi[i] # "none"
                             /\ \A j \in Slot : mi[j] # "none" => j <= i,
     uuid |-> [i \in Slot |-> IF mi[i] = "none" THEN ZeroUuid ELSE MemberUuid]]

-----------------------------------------------------------------------------
(* struct bch_fs *)

NoFs ==
    [alloc |-> "none", uuid |-> "A", state |-> "STARTING", flags |-> {},
     replicas |-> [metadata_replicas |-> 1, metadata_replicas_required |-> 1,
                   data_replicas |-> 1, data_replicas_required |-> 1],
     opts |-> [read_only |-> FALSE, noreplay |-> FALSE, nostart |-> FALSE],
     writes_dead |-> FALSE, writes_released |-> FALSE, nr_writes |-> 0,
     journal |-> "init", journal_error |-> FALSE,
     gc_thread |-> FALSE, tiering |-> FALSE, pd_controllers_update |-> FALSE,
     sb_initialized |-> FALSE, sb_clean |-> FALSE,
     sb |-> NoSb, disk |-> NoSb, write_delay_ms |-> 100,
     devs |-> [i \in Slot |-> NoDev],
     read_only_work |-> FALSE,
     state_lock |-> "none",
     pc |-> [t \in Threads |-> "idle"], in_start |-> FALSE,
     pc_stop |-> "idle", pc_open |-> "idle",
     pc_evac |-> "idle", evac_dev |-> 0, cl_refs |-> 0,
     pc_remove |-> "idle", remove_dev |-> 0, pc_rw |-> "idle",
     pc_td |-> "idle",
     pc_off |-> "idle", off_dev |-> 0, off_caller |-> "none",
     io_ref |-> [i \in Slot |-> 0], io_dead |-> [i \in Slot |-> TRUE],
     offline_complete |-> [i \in Slot |-> FALSE],
     dev_rcu |-> [i \in Slot |-> 0], dev_ref |-> [i \in Slot |-> 0],
     ero_rets |-> <<>>, teardowns |-> 0, work_teardowns |-> 0]

\* bch2_fs_alloc: a new instance in state STARTING (kzalloc), the write gate
\* c->writes open, a record allocated for every member slot of the superblock
bch2_fs_alloc(uuid, replicas, opts, initialized, clean, mi) ==
    [NoFs EXCEPT !.alloc = "live", !.uuid = uuid,
                 !.replicas = replicas, !.opts = opts,
                 !.sb_initialized = initialized, !.sb_clean = clean,
                 !.sb = SbOfMembers(mi), !.disk = SbOfMembers(mi),
                 !.devs = [i \in Slot |-> IF bch2_dev_exists(SbOfMembers(mi), i)
                                          THEN bch2_dev_alloc(mi[i]) ELSE NoDev]]

\* bch2_write_super: the image c->disk_sb goes to the devices
bch2_write_super(x) == [x EXCEPT !.disk = x.sb]

\* for_each_member_device: every slot that holds a record
Members(x) == {i \in Slot : x.devs[i].present}

\* for_each_rw_member: members in state RW whose io_ref is live (online)
RwMembers(x) ==
    {i \in Slot : x.devs[i].present /\ x.devs[i].online
                  /\ x.devs[i].mi_state = "RW"}

\* test_bit(flag, &c->flags)
TestBit(x, flag) == flag \in x.flags

AnyWorker(x) ==
    \/ x.gc_thread
    \/ x.tiering
    \/ \E i \in Slot : x.devs[i].allocator \/ x.devs[i].moving_gc

AnyInPool(x) == \E i \in Slot : x.devs[i].in_pool


-----------------------------------------------------------------------------
(* Filesystem RO/RW *)

\* Apply f to the record of every slot in S
MapDevs(x, S, f(_)) ==
    [x EXCEPT !.devs = [i \in Slot |-> IF i \in S THEN f(x.devs[i]) ELSE x.devs[i]]]

bch2_dev_allocator_add(ca) == [ca EXCEPT !.in_pool = TRUE]
bch2_dev_allocator_remove(ca) == [ca EXCEPT !.in_pool = FALSE]
bch2_dev_allocator_start(ca) == [ca EXCEPT !.allocator = TRUE]
bch2_dev_allocator_stop(ca) == [ca EXCEPT !.allocator = FALSE]
bch2_moving_gc_start(ca) == [ca EXCEPT !.moving_gc = TRUE]
bch2_moving_gc_stop(ca) == [ca EXCEPT !.moving_gc = FALSE]

\* bch2_fs_journal_stop: stops the journal's background machinery if started
bch2_fs_journal_stop(x) ==
    [x EXCEPT !.journal = IF @ = "running" THEN "stopped" ELSE @]

\* (variant: __bch2_fs_read_only without the loop that stops the allocators)
ReadOnlyWithoutAllocatorStop(x) ==
    LET a == [x EXCEPT !.tiering = FALSE]
        b == MapDevs(a, Members(a), bch2_moving_gc_stop)
        c == [b EXCEPT !.gc_thread = FALSE]
        e == bch2_fs_journal_stop(c)
    IN  MapDevs(e, Members(e), bch2_dev_allocator_remove)

\* __bch2_fs_read_only: tiering, every moving gc, the gc thread, (journal
\* flush), every allocator, the journal, then every device out of the pool
__bch2_fs_read_only(x) ==
    LET a == [x EXCEPT !.tiering = FALSE]
        b == MapDevs(a, Members(a), bch2_moving_gc_stop)
        c == [b EXCEPT !.gc_thread = FALSE]
        d == MapDevs(c, Members(c), bch2_dev_allocator_stop)
        e == bch2_fs_journal_stop(d)
    IN  MapDevs(e, Members(e), bch2_dev_allocator_remove)

\* The places where bch2_fs_read_write can fail: a device's allocator thread,
\* the gc thread, a device's moving gc thread, the tiering thread
NoFail == [at |-> "none", dev |-> 0]
RwFails(x) ==
    {[at |-> a, dev |-> k] : a \in {"allocator", "moving_gc"}, k \in RwMembers(x)}
    \cup {[at |-> a, dev |-> 0] : a \in {"gc", "tiering"}}

RwErr(fail) ==
    CASE fail.at = "allocator" -> "error starting allocator thread"
      [] fail.at = "gc"        -> "error starting btree GC thread"
      [] fail.at = "moving_gc" -> "error starting moving GC thread"
      [] fail.at = "tiering"   -> "error starting tiering thread"
      [] OTHER                 -> "NULL"

Before(S, k) == {i \in S : i < k}

\* bch2_fs_read_write, with `fail` the first worker that does not start
bch2_fs_read_write(x, fail) ==
    IF x.state \notin {"STARTING", "RO"}
    THEN x
    ELSE
    LET rw == RwMembers(x)
        a == MapDevs(x, rw, bch2_dev_allocator_add)
        b == MapDevs(a, IF fail.at = "allocator" THEN Before(rw, fail.dev) ELSE rw,
                     bch2_dev_allocator_start)
        c == [b EXCEPT !.gc_thread = TRUE]
        d == MapDevs(c, IF fail.at = "moving_gc" THEN Before(rw, fail.dev) ELSE rw,
                     bch2_moving_gc_start)
        e == [d EXCEPT !.tiering = TRUE]
    IN  CASE fail.at = "allocator" -> __bch2_fs_read_only(b)
          [] fail.at = "gc"        -> __bch2_fs_read_only(b)
          [] fail.at = "moving_gc" -> __bch2_fs_read_only(d)
          [] fail.at = "tiering"   -> __bch2_fs_read_only(d)
          [] OTHER ->
               [e EXCEPT !.pd_controllers_update = TRUE,
                         !.writes_dead = IF x.state # "STARTING" THEN FALSE ELSE @,
                         !.writes_released = IF x.state # "STARTING" THEN FALSE ELSE @,
                         !.state = "RW",
                         !.teardowns = 0]

\* (variant: bch2_fs_read_write that starts the gc thread before the
\* allocators)
RwStepsGcFirst ==
    <<"pool", "gc", "allocators", "moving_gc", "tiering", "pd_controllers",
      "writes", "state">>

\* The statements of bch2_fs_read_write after its test of c->state, in the
\* order of the source; pc_rw names the one that is next
RwSteps ==
    <<"pool", "allocators", "gc", "moving_gc", "tiering", "pd_controllers",
      "writes", "state">>

RwStepAfter(step) ==
    LET k == CHOOSE k \in 1..Len(RwSteps) : RwSteps[k] = step
    IN  IF k = Len(RwSteps) THEN "idle" ELSE RwSteps[k + 1]

\* The workers the statement that is next can fail to start
RwStepFails(x) ==
    {NoFail} \cup
    CASE x.pc_rw = "allocators" ->
            {[at |-> "allocator", dev |-> k] : k \in RwMembers(x)}
      [] x.pc_rw = "gc" -> {[at |-> "gc", dev |-> 0]}
      [] x.pc_rw = "moving_gc" ->
            {[at |-> "moving_gc", dev |-> k] : k \in RwMembers(x)}
      [] x.pc_rw = "tiering" -> {[at |-> "tiering", dev |-> 0]}
      [] OTHER -> {}

\* One statement of bch2_fs_read_write; a worker that fails to start stops
\* the loop it is in and leads to err: __bch2_fs_read_only(c); return err
bch2_fs_read_write_step(x, fail) ==
    LET rw == RwMembers(x)
        y == CASE x.pc_rw = "pool" -> MapDevs(x, rw, bch2_dev_allocator_add)
               [] x.pc_rw = "allocators" ->
                    MapDevs(x, IF fail = NoFail THEN rw ELSE Before(rw, fail.dev),
                            bch2_dev_allocator_start)
               [] x.pc_rw = "gc" ->
                    [x EXCEPT !.gc_thread = (fail = NoFail) \/ @]
               [] x.pc_rw = "moving_gc" ->
                    MapDevs(x, IF fail = NoFail THEN rw ELSE Before(rw, fail.dev),
                            bch2_moving_gc_start)
               [] x.pc_rw = "tiering" ->
                    [x EXCEPT !.tiering = (fail = NoFail) \/ @]
               [] x.pc_rw = "pd_controllers" ->
                    [x EXCEPT !.pd_controllers_update = TRUE]
               [] x.pc_rw = "writes" ->
                    [x EXCEPT !.writes_dead =
                                 IF x.state # "STARTING" THEN FALSE ELSE @,
                              !.writes_released =
                                 IF x.state # "STARTING" THEN FALSE ELSE @]
               [] OTHER -> [x EXCEPT !.state = "RW", !.teardowns = 0]
    IN  IF fail # NoFail
        THEN [__bch2_fs_read_only(y) EXCEPT !.pc_rw = "idle", !.state_lock = "none"]
        ELSE [y EXCEPT !.pc_rw = RwStepAfter(x.pc_rw),
                       !.state_lock = IF RwStepAfter(x.pc_rw) = "idle"
                                      THEN "none" ELSE @]

\* What bch2_fs_read_write returns
ReadWriteRet(x, fail) ==
    IF x.state \notin {"STARTING", "RO"} THEN "NULL" ELSE RwErr(fail)


\* percpu_ref_kill(&c->writes), del_timer, cancel_delayed_work: the part of
\* bch2_fs_read_only before its first wait_event.  Returns at once when the
\* state is neither STARTING nor RW, or when BCH_FS_ERROR is set.
\* (variant: the check of BCH_FS_ERROR alone, without the check of c->state)
ReturnsEarlyOnErrorOnly(x) == TestBit(x, "ERROR")

ReadOnlyReturnsEarly(x) ==
    \/ x.state \notin {"STARTING", "RW"}
    \/ TestBit(x, "ERROR")

bch2_fs_read_only_enter(x, t) ==
    IF ReadOnlyReturnsEarly(x)
    THEN x
    ELSE [x EXCEPT !.writes_dead = TRUE,
                   !.pd_controllers_update = FALSE,
                   !.pc[t] = "ro_wait1"]

\* wait_event(WRITE_DISABLE_COMPLETE || EMERGENCY_RO) has returned:
\* __bch2_fs_read_only, then the second wait_event
ReadOnlyMayTeardown(x) ==
    TestBit(x, "WRITE_DISABLE_COMPLETE") \/ TestBit(x, "EMERGENCY_RO")

bch2_fs_read_only_teardown(x, t) ==
    [__bch2_fs_read_only(x) EXCEPT !.teardowns = x.teardowns + 1,
                                   !.work_teardowns = IF t = "work" THEN @ + 1 ELSE @,
                                   !.pc[t] = "ro_wait2"]

\* (variant: __bch2_fs_read_only that stops the allocators before it flushes
\* the journal)
TdStepsAllocatorsFirst ==
    <<"tiering", "moving_gc", "gc", "allocators", "flush", "journal", "pool">>

\* The statements of __bch2_fs_read_only in the order of the source; pc_td
\* names the one that is next, "idle" outside the function
TdSteps ==
    <<"tiering", "moving_gc", "gc", "flush", "allocators", "journal", "pool">>

TdStepAfter(step) ==
    LET k == CHOOSE k \in 1..Len(TdSteps) : TdSteps[k] = step
    IN  IF k = Len(TdSteps) THEN "idle" ELSE TdSteps[k + 1]

\* One statement of the __bch2_fs_read_only that bch2_fs_read_only calls
\* between its two waits; the journal flush changes nothing that is modelled
bch2_fs_read_only_teardown_step(x, t) ==
    LET step == IF x.pc_td = "idle" THEN TdSteps[1] ELSE x.pc_td
        y == CASE step = "tiering" -> [x EXCEPT !.tiering = FALSE]
               [] step = "moving_gc" -> MapDevs(x, Members(x), bch2_moving_gc_stop)
               [] step = "gc" -> [x EXCEPT !.gc_thread = FALSE]
               [] step = "flush" -> x
               [] step = "allocators" ->
                    MapDevs(x, Members(x), bch2_dev_allocator_stop)
               [] step = "journal" -> bch2_fs_journal_stop(x)
               [] OTHER -> MapDevs(x, Members(x), bch2_dev_allocator_remove)
    IN  IF TdStepAfter(step) = "idle"
        THEN [y EXCEPT !.pc_td = "idle",
                       !.teardowns = x.teardowns + 1,
                       !.work_teardowns = IF t = "work" THEN @ + 1 ELSE @,
                       !.pc[t] = "ro_wait2"]
        ELSE [y EXCEPT !.pc_td = TdStepAfter(step)]

\* (variant: the superblock is marked clean only when the journal has an error)
MarksCleanOnJournalError(x) == x.journal_error /\ ~TestBit(x, "ERROR")

\* wait_event(WRITE_DISABLE_COMPLETE) has returned: clear the bit, mark the
\* superblock clean unless the journal or the filesystem has an error, RO
ReadOnlyMarksClean(x) == ~x.journal_error /\ ~TestBit(x, "ERROR")

bch2_fs_read_only_finish(x, t) ==
    [x EXCEPT !.flags = @ \ {"WRITE_DISABLE_COMPLETE"},
              !.sb_clean = IF ReadOnlyMarksClean(x) THEN TRUE ELSE @,
              !.disk = IF ReadOnlyMarksClean(x) THEN x.sb ELSE @,
              !.state = "RO",
              !.pc[t] = "idle"]

\* bch2_writes_disabled: the release callback of c->writes
bch2_writes_disabled(x) ==
    [x EXCEPT !.flags = @ \cup {"WRITE_DISABLE_COMPLETE"},
              !.writes_released = TRUE]

\* (variant: without bch2_journal_halt)
EmergencyReadOnlyNoHalt(x) ==
    [x EXCEPT !.flags = @ \cup {"EMERGENCY_RO"},
              !.read_only_work = TRUE,
              !.ero_rets = Append(@, ~TestBit(x, "EMERGENCY_RO"))]

\* bch2_fs_emergency_read_only: test_and_set_bit(EMERGENCY_RO), queue the
\* read-only work, halt the journal; returns whether the bit was clear
bch2_fs_emergency_read_only(x) ==
    [x EXCEPT !.flags = @ \cup {"EMERGENCY_RO"},
              !.read_only_work = TRUE,
              !.journal_error = TRUE,
              !.ero_rets = Append(@, ~TestBit(x, "EMERGENCY_RO"))]


-----------------------------------------------------------------------------
(* Filesystem startup: __bch2_fs_start *)

\* The steps of __bch2_fs_start that can fail, in the order the code runs them
StartRank(fail) ==
    CASE fail.at = "journal_read"     -> 1
      [] fail.at = "btree_root_missing" -> 2
      [] fail.at = "btree_root_read"  -> 2
      [] fail.at = "alloc_read"       -> 3
      [] fail.at = "initial_gc"       -> 4
      [] fail.at = "journal_alloc"    -> 5
      [] fail.at = "btree_root_alloc" -> 6
      [] fail.at = "allocator_start"  -> 7
      [] fail.at = "journal_replay"   -> 8
      [] fail.at = "root_dir"         -> 8
      [] fail.at = "fsck"             -> 9
      [] fail.at = "journal_meta"     -> 9
      [] fail.at = "fs_start_fault"   -> 10
      [] OTHER                        -> 11

\* goto recovery_done right after the initial gc of an existing filesystem
SkipsReplay(x) == x.sb_initialized /\ x.opts.noreplay

StartFails(x) ==
    LET plain(S) == {[at |-> a, dev |-> 0] : a \in S}
        perdev(a) == {[at |-> a, dev |-> k] : k \in RwMembers(x)}
    IN  IF x.sb_initialized
        THEN plain({"journal_read", "btree_root_missing", "btree_root_read",
                    "alloc_read", "initial_gc", "fs_start_fault"})
             \cup (IF x.opts.noreplay THEN {}
                   ELSE plain({"btree_root_alloc", "journal_replay"})
                        \cup perdev("allocator_start")
                        \cup plain({"fsck"}))
        ELSE plain({"initial_gc", "btree_root_alloc", "root_dir",
                    "journal_meta", "fs_start_fault"})
             \cup perdev("journal_alloc") \cup perdev("allocator_start")

StartFailed(fail) == StartRank(fail) <= 10

\* (variant: __bch2_fs_start that starts the journal and the allocators
\* before the initial mark and sweep)
StartRecoveryAllocatorsFirst(x, fail) ==
    LET rw == RwMembers(x)
        a == MapDevs(x, rw, bch2_dev_allocator_add)
        b == IF ~SkipsReplay(x) /\ StartRank(fail) >= 4
             THEN [a EXCEPT !.journal = "running"] ELSE a
        started == IF SkipsReplay(x) \/ StartRank(fail) < 4 THEN {}
                   ELSE IF fail.at = "allocator_start" THEN Before(rw, fail.dev)
                   ELSE rw
    IN  MapDevs(b, started, bch2_dev_allocator_start)

\* The state at recovery_done, or where the step `fail` fails: the RW members
\* are in the pool; the journal is started and the allocators of the RW
\* members are running once those steps have been reached
StartRecovery(x, fail) ==
    LET rw == RwMembers(x)
        a == MapDevs(x, rw, bch2_dev_allocator_add)
        b == IF ~SkipsReplay(x) /\ StartRank(fail) >= 7
             THEN [a EXCEPT !.journal = "running"] ELSE a
        started == IF SkipsReplay(x) \/ StartRank(fail) < 7 THEN {}
                   ELSE IF fail.at = "allocator_start" THEN Before(rw, fail.dev)
                   ELSE rw
    IN  MapDevs(b, started, bch2_dev_allocator_start)

\* The values of ret the err: label of __bch2_fs_start distinguishes
StartRets ==
    {"BCH_FSCK_ERRORS_NOT_FIXED", "BCH_FSCK_REPAIR_UNIMPLEMENTED",
     "BCH_FSCK_REPAIR_IMPOSSIBLE", "BCH_FSCK_UNKNOWN_VERSION",
     "-ENOMEM", "-EIO", "-EINVAL"}

\* The steps whose return value is assigned to ret
RetSteps == {"journal_read", "alloc_read", "initial_gc", "journal_replay", "fsck"}

\* err as set before the failing step
StartBaseErr(x, fail) ==
    CASE fail.at = "journal_read"       -> "cannot allocate memory"
      [] fail.at = "btree_root_missing" -> "missing btree root"
      [] fail.at = "btree_root_read"    -> "error reading btree root"
      [] fail.at = "alloc_read"         -> "error reading allocation information"
      [] fail.at = "initial_gc"         ->
            IF x.sb_initialized THEN "error in recovery" ELSE "cannot allocate memory"
      [] fail.at = "journal_alloc"      -> "unable to allocate journal buckets"
      [] fail.at = "btree_root_alloc"   -> "cannot allocate new btree root"
      [] fail.at = "allocator_start"    -> "error starting allocator thread"
      [] fail.at = "journal_replay"     -> "journal replay failed"
      [] fail.at = "fsck"               -> "error in fsck"
      [] fail.at = "root_dir"           -> "error creating root directory"
      [] fail.at = "journal_meta"       -> "error writing first journal entry"
      [] OTHER                          -> "dynamic fault"

\* switch (ret) at the err: label
StartErr(x, fail, ret) ==
    LET r == IF fail.at \in RetSteps THEN ret ELSE "0"
    IN  CASE r \in {"BCH_FSCK_ERRORS_NOT_FIXED", "BCH_FSCK_REPAIR_UNIMPLEMENTED",
                    "BCH_FSCK_REPAIR_IMPOSSIBLE"} -> "fsck error"
          [] r = "BCH_FSCK_UNKNOWN_VERSION" -> "unknown metadata version"
          [] r = "-ENOMEM" -> "cannot allocate memory"
          [] r = "-EIO" -> "IO error"
          [] OTHER -> StartBaseErr(x, fail)

\* Every string __bch2_fs_start can return at its err: label
StartErrs ==
    {"cannot allocate memory", "missing btree root", "error reading btree root",
     "error reading allocation information", "error in recovery",
     "unable to allocate journal buckets", "cannot allocate new btree root",
     "error starting allocator thread", "journal replay failed", "error in fsck",
     "error creating root directory", "error writing first journal entry",
     "dynamic fault", "fsck error", "unknown metadata version", "IO error",
     "error starting btree GC thread", "error starting moving GC thread",
     "error starting tiering thread"}

\* (variant: the err: label without set_bit(BCH_FS_ERROR))
StartErrorWithoutFlag(x) ==
    [x EXCEPT !.state_lock = "none", !.in_start = FALSE]

\* err: set_bit(BCH_FS_ERROR), unlock, return err
StartError(x) ==
    [x EXCEPT !.flags = @ \cup {"ERROR"},
              !.state_lock = "none", !.in_start = FALSE]

\* After the RO/RW transition: SET_BCH_SB_INITIALIZED(true),
\* SET_BCH_SB_CLEAN(false), bch2_write_super, unlock, return NULL
StartTail(x) ==
    [x EXCEPT !.sb_initialized = TRUE, !.sb_clean = FALSE, !.disk = x.sb,
              !.state_lock = "none", !.in_start = FALSE]

\* The inputs of one call of __bch2_fs_start: the step that fails, if any,
\* and the value the failing step leaves in ret
StartInputs(x) ==
    LET fails == StartFails(x) \cup (IF x.opts.read_only THEN {} ELSE RwFails(x))
                 \cup {NoFail}
    IN  {<<f, r>> \in fails \X StartRets : f.at \notin RetSteps => r = "-EINVAL"}

\* __bch2_fs_start up to its return, or up to the first wait_event of the
\* bch2_fs_read_only it calls when the read_only option is set
__bch2_fs_start(x, fail, ret) ==
    LET y == StartRecovery(x, fail)
    IN  IF StartFailed(fail) THEN StartError(y)
        ELSE IF x.opts.read_only
        THEN LET z == bch2_fs_read_only_enter(y, "user")
             IN  IF z.pc["user"] = "ro_wait1"
                 THEN [z EXCEPT !.state_lock = "user", !.in_start = TRUE]
                 ELSE StartTail(z)
        ELSE IF ReadWriteRet(y, fail) # "NULL"
        THEN StartError(bch2_fs_read_write(y, fail))
        ELSE StartTail(bch2_fs_read_write(y, fail))

\* What __bch2_fs_start returns; "pending" while it waits in bch2_fs_read_only
StartRet(x, fail, ret) ==
    LET y == StartRecovery(x, fail)
    IN  IF StartFailed(fail) THEN StartErr(x, fail, ret)
        ELSE IF x.opts.read_only
        THEN IF ReadOnlyReturnsEarly(y) THEN "NULL" ELSE "pending"
        ELSE ReadWriteRet(y, fail)


-----------------------------------------------------------------------------
(* Device membership state *)

\* bch2_dev_state_allowed; `enough` is what bch2_have_enough_devs answers for
\* the online devices without this one
bch2_dev_state_allowed(x, i, new_state, flags, enough) ==
    LET ca == x.devs[i]
        nr_rw == Cardinality({j \in Members(x) : x.devs[j].mi_state = "RW"})
        required ==
            Max(IF BCH_FORCE_IF_METADATA_DEGRADED \notin flags
                THEN x.replicas.metadata_replicas
                ELSE x.replicas.metadata_replicas_required,
                IF BCH_FORCE_IF_DATA_DEGRADED \notin flags
                THEN x.replicas.data_replicas
                ELSE x.replicas.data_replicas_required)
    IN  CASE new_state = "RW" -> TRUE
          [] new_state = "RO" ->
                IF ca.mi_state # "RW" THEN TRUE
                ELSE nr_rw - 1 <= required
          [] OTHER ->
                IF ca.mi_state \notin {"RW", "RO"} THEN TRUE
                ELSE enough

\* __bch2_dev_read_only: moving gc, allocator thread, out of the pool
__bch2_dev_read_only(ca) ==
    bch2_dev_allocator_remove(bch2_dev_allocator_stop(bch2_moving_gc_stop(ca)))

\* (variant: __bch2_dev_read_write without its BUG_ON)
DevReadWriteNoBug(ca) == FALSE

\* BUG_ON(ca->mi.state != BCH_MEMBER_STATE_RW) in __bch2_dev_read_write
DevReadWriteBug(ca) == ca.mi_state # "RW"

\* The places where __bch2_dev_read_write can fail
DevRwFails == {"none", "allocator", "moving_gc", "tiering"}

DevRwErr(fail) ==
    CASE fail = "allocator" -> "error starting allocator thread"
      [] fail = "moving_gc" -> "error starting moving GC thread"
      [] fail = "tiering"   -> "error starting tiering thread"
      [] OTHER              -> "NULL"

\* __bch2_dev_read_write: into the pool, allocator, moving gc, tiering
__bch2_dev_read_write(x, i, fail) ==
    LET a == MapDevs(x, {i}, bch2_dev_allocator_add)
        b == MapDevs(a, {i}, bch2_dev_allocator_start)
        c == MapDevs(b, {i}, bch2_moving_gc_start)
    IN  CASE fail = "allocator" -> a
          [] fail = "moving_gc" -> b
          [] fail = "tiering"   -> c
          [] OTHER              -> [c EXCEPT !.tiering = TRUE]

\* SET_BCH_MEMBER_STATE, bch2_write_super: the member's state as persisted,
\* which bch2_write_super copies back into ca->mi
WriteMemberState(x, i, new_state) ==
    bch2_write_super([x EXCEPT !.devs[i].mi_state = new_state])

\* __bch2_dev_set_state, for the calls that do not reach the BUG_ON
__bch2_dev_set_state(x, i, new_state, flags, enough, fail) ==
    IF x.devs[i].mi_state = new_state THEN x
    ELSE IF ~bch2_dev_state_allowed(x, i, new_state, flags, enough) THEN x
    ELSE IF new_state = "RW"
    THEN IF fail # "none"
         THEN __bch2_dev_read_write(x, i, fail)
         ELSE WriteMemberState(__bch2_dev_read_write(x, i, fail), i, new_state)
    ELSE WriteMemberState(MapDevs(x, {i}, __bch2_dev_read_only), i, new_state)

\* What __bch2_dev_set_state returns
DevSetStateRet(x, i, new_state, flags, enough, fail) ==
    IF x.devs[i].mi_state = new_state THEN "0"
    ELSE IF ~bch2_dev_state_allowed(x, i, new_state, flags, enough) THEN "-EINVAL"
    ELSE IF new_state = "RW" /\ fail # "none" THEN "-ENOMEM"
    ELSE "0"

\* The call reaches __bch2_dev_read_write with the member not yet RW
DevSetStateBug(x, i, new_state, flags, enough) ==
    /\ x.devs[i].mi_state # new_state
    /\ bch2_dev_state_allowed(x, i, new_state, flags, enough)
    /\ new_state = "RW"
    /\ DevReadWriteBug(x.devs[i])

\* The arguments of a call of bch2_dev_set_state on member i, and the answers
\* of the functions it calls: the force flags are read only on the way from
\* RW to RO, bch2_have_enough_devs only on the way to FAILED or SPARE
DevSetStateInputs(x, i) ==
    {arg \in [new_state : MemberStates, flags : ForceFlags, enough : BOOLEAN] :
        /\ (~(arg.new_state = "RO" /\ x.devs[i].mi_state = "RW") => arg.flags = {})
        /\ (~(arg.new_state \in {"FAILED", "SPARE"}
              /\ x.devs[i].mi_state \in {"RW", "RO"}) => arg.enough)}


-----------------------------------------------------------------------------
(* Device online/offline, add and removal *)

\* bch2_sb_to_fs(c, sb): the image c->disk_sb becomes the superblock read from
\* the device; of its contents the image's sequence number is kept here
bch2_sb_to_fs(x, seq) == [x EXCEPT !.sb.seq = seq]

\* BUG_ON(sb->sb->dev_idx >= c->sb.nr_devices || !c->devs[sb->sb->dev_idx])
DevOnlineBug(x, i) == i >= x.sb.nr_devices \/ ~x.devs[i].present

\* The first statement of __bch2_dev_online: a newer superblock replaces the
\* image of the instance
DevOnlineSb(x, seq) == IF seq > x.sb.seq THEN bch2_sb_to_fs(x, seq) ELSE x

\* What __bch2_dev_online returns for the superblock of slot i: the slot has
\* a block device attached already, or bch2_dev_journal_init fails
DevOnlineRet(x, i, journal_init_fails) ==
    IF x.devs[i].online THEN "-EINVAL"
    ELSE IF journal_init_fails THEN "-ENOMEM"
    ELSE "0"

\* __bch2_dev_online(c, sb), sb the superblock with sequence number seq read
\* from the device of slot i; slow: the device is rotational and journal
\* flushes go to it
__bch2_dev_online(x, i, seq, journal_init_fails, slow) ==
    LET a == DevOnlineSb(x, seq)
    IN  IF DevOnlineRet(x, i, journal_init_fails) # "0" THEN a
        ELSE [a EXCEPT !.write_delay_ms = IF slow THEN Max(@, 1000) ELSE @,
                       !.devs[i] = DevOnlineCommit(@)]

\* __bch2_dev_offline: __bch2_dev_read_only, percpu_ref_kill(&ca->io_ref),
\* bch2_free_super(&ca->disk_sb)
__bch2_dev_offline(ca) == [__bch2_dev_read_only(ca) EXCEPT !.online = FALSE]

\* bch2_dev_stop: c->devs[ca->dev_idx] = NULL; bch2_dev_free: the record
bch2_dev_stop(x, i) == [x EXCEPT !.devs[i] = NoDev]

\* The answers of the functions bch2_dev_remove calls: bch2_have_enough_devs
\* (asked only for a member that is RW or RO), bch2_flag_data_bad and
\* bch2_dev_has_data
DevRemoveInputs(x, i) ==
    {arg \in [enough : BOOLEAN, flag_ret : {"0", "-EINTR"}, data : BOOLEAN] :
        x.devs[i].mi_state \notin {"RW", "RO"} => arg.enough}

\* The checks of bch2_dev_remove, in their order; "remove" when all pass
DevRemoveTaken(x, i, arg) ==
    IF x.devs[i].mi_state = "RW" THEN "rw"
    ELSE IF ~bch2_dev_state_allowed(x, i, "FAILED", {}, arg.enough) THEN "guard"
    ELSE IF arg.flag_ret # "0" THEN "flag_data_bad"
    ELSE IF arg.data THEN "has_data"
    ELSE "remove"

\* What bch2_dev_remove returns: ret is -EINVAL up to bch2_flag_data_bad, whose
\* return it then holds
DevRemoveRet(x, i, arg) ==
    CASE DevRemoveTaken(x, i, arg) \in {"rw", "guard"} -> "-EINVAL"
      [] DevRemoveTaken(x, i, arg) = "flag_data_bad" -> arg.flag_ret
      [] OTHER -> "0"

\* (variant: bch2_dev_remove without the memset of the member's UUID)
RemoveWithoutUuidClear(x, i, arg) ==
    IF DevRemoveTaken(x, i, arg) # "remove" THEN x
    ELSE bch2_write_super(
            bch2_dev_stop(MapDevs(x, {i}, __bch2_dev_offline), i))

\* bch2_dev_remove(c, ca, flags), ca the member of slot i: __bch2_dev_offline,
\* bch2_dev_stop, bch2_dev_free, the UUID of the slot zeroed, bch2_write_super
bch2_dev_remove(x, i, arg) ==
    IF DevRemoveTaken(x, i, arg) # "remove" THEN x
    ELSE bch2_write_super(
            [bch2_dev_stop(MapDevs(x, {i}, __bch2_dev_offline), i)
                EXCEPT !.sb.uuid[i] = ZeroUuid])

\* The steps of bch2_dev_add that can fail: reading and validating the
\* superblock of the new device, the search for a slot (the dynamic fault),
\* the resize of either member table, bch2_dev_alloc, __bch2_dev_online, and
\* for a device that comes in as RW bch2_dev_journal_alloc and the workers
DevAddFails ==
    {"none", "read_super", "no_slot", "resize_members", "dev_alloc",
     "dev_online", "journal_alloc"} \cup (DevRwFails \ {"none"})

\* The sequence numbers a superblock read from a device can have, one for
\* "not newer than the image" and every newer one
DevSeqs(x) == {0} \cup {n \in 0..MaxSeq : n > x.sb.seq}

\* The new device: the membership state in its member info, the sequence
\* number of its superblock, whether it is a slow journal device, and the
\* step of the call that fails
DevAddInputs(x) ==
    {arg \in [mi_state : MemberStates, seq : DevSeqs(x), slow : BOOLEAN,
              fail : DevAddFails] :
        /\ arg.fail \in {"journal_alloc"} \cup (DevRwFails \ {"none"})
              => arg.mi_state = "RW"
        /\ arg.fail \in {"read_super", "no_slot", "resize_members", "dev_alloc"}
              => arg.seq = 0 /\ ~arg.slow
        /\ arg.fail \in {"read_super", "no_slot", "resize_members"}
              => arg.mi_state = "RW"}

\* for (dev_idx = 0; dev_idx < BCH_SB_MEMBERS_MAX; dev_idx++)
\*         if (!bch2_dev_exists(c->disk_sb, mi, dev_idx)) goto have_slot;
FreeSlots(x) == {i \in Slot : ~bch2_dev_exists(x.sb, i)}

FirstFreeSlot(x) ==
    CHOOSE i \in FreeSlots(x) : \A j \in FreeSlots(x) : i <= j

\* The label bch2_dev_add leaves by
DevAddTaken(x, arg) ==
    IF arg.fail = "read_super" THEN "read_super"
    ELSE IF arg.fail = "no_slot" \/ FreeSlots(x) = {} THEN "no_slot"
    ELSE arg.fail

\* What bch2_dev_add returns: ret ?: -EINVAL
DevAddRet(x, arg) ==
    CASE DevAddTaken(x, arg) = "none" -> "0"
      [] DevAddTaken(x, arg) = "no_slot" -> "-ENOSPC"
      [] DevAddTaken(x, arg) \in {"dev_alloc", "dev_online"} -> "-ENOMEM"
      [] OTHER -> "-EINVAL"

\* /* commit new member info */: the member info of the new device in slot
\* dev_idx of the image, nr_devices = max(dev_idx + 1, c->sb.nr_devices)
DevAddCommit(x, dev_idx) ==
    [x EXCEPT !.sb.uuid[dev_idx] = MemberUuid,
              !.sb.nr_devices = Max(dev_idx + 1, x.sb.nr_devices)]

\* bch2_dev_add(c, path)
bch2_dev_add(x, arg) ==
    LET dev_idx == FirstFreeSlot(x)
        a == DevAddCommit(x, dev_idx)
        b == [a EXCEPT !.devs[dev_idx] = bch2_dev_alloc(arg.mi_state)]
        d == bch2_write_super(
                __bch2_dev_online(b, dev_idx, arg.seq, FALSE, arg.slow))
    IN  CASE DevAddTaken(x, arg) \in {"read_super", "no_slot", "resize_members"} -> x
          [] DevAddTaken(x, arg) = "dev_alloc" -> a
          [] DevAddTaken(x, arg) = "dev_online" ->
                __bch2_dev_online(b, dev_idx, arg.seq, TRUE, arg.slow)
          [] DevAddTaken(x, arg) = "journal_alloc" -> d
          [] arg.mi_state = "RW" ->
                __bch2_dev_read_write(d, dev_idx, DevAddTaken(x, arg))
          [] OTHER -> d

\* The answers bch2_dev_online of the device of slot i gets: the superblock
\* cannot be read or bch2_dev_in_fs refuses it, its sequence number, whether
\* bch2_dev_journal_init fails, the kind of device, the worker that fails
DevOnlineInputs(x, i) ==
    {arg \in [refused : BOOLEAN, seq : DevSeqs(x), journal_init_fails : BOOLEAN,
              slow : BOOLEAN, fail : DevRwFails] :
        /\ (arg.seq <= x.sb.seq /\ ~bch2_dev_exists(x.sb, i)) => arg.refused
        /\ arg.refused => arg.seq = 0 /\ ~arg.journal_init_fails /\ ~arg.slow
        /\ (arg.refused \/ arg.journal_init_fails) => arg.fail = "none"
        /\ (~arg.refused /\ i \in Members(x) /\ x.devs[i].online)
              => ~arg.journal_init_fails /\ ~arg.slow /\ arg.fail = "none"
        /\ arg.fail # "none" => x.devs[i].mi_state = "RW"}

\* What bch2_dev_online returns
DevOnlineCallRet(x, i, arg) ==
    IF arg.refused THEN "-EINVAL"
    ELSE IF DevOnlineRet(x, i, arg.journal_init_fails) # "0" THEN "-EINVAL"
    ELSE IF x.devs[i].mi_state = "RW" /\ arg.fail # "none" THEN "-EINVAL"
    ELSE "0"

\* bch2_dev_online(c, path), for the calls that pass the BUG_ON
bch2_dev_online(x, i, arg) ==
    LET a == __bch2_dev_online(x, i, arg.seq, arg.journal_init_fails, arg.slow)
    IN  IF arg.refused THEN x
        ELSE IF DevOnlineRet(x, i, arg.journal_init_fails) # "0" THEN a
        ELSE IF a.devs[i].mi_state = "RW"
        THEN __bch2_dev_read_write(a, i, arg.fail)
        ELSE a

\* bch2_dev_evacuate(c, ca) up to mutex_unlock(&c->state_lock): a member that
\* is RW is refused, for any other the migration is next
bch2_dev_evacuate_enter(x, i) ==
    IF x.devs[i].mi_state = "RW" THEN x
    ELSE [x EXCEPT !.pc_evac = "data", !.evac_dev = i]

\* bch2_dev_offline(c, ca, flags)
bch2_dev_offline(x, i, enough) ==
    IF ~bch2_dev_state_allowed(x, i, "FAILED", {}, enough) THEN x
    ELSE MapDevs(x, {i}, __bch2_dev_offline)

DevOfflineRet(x, i, enough) ==
    IF ~bch2_dev_state_allowed(x, i, "FAILED", {}, enough) THEN "-EINVAL" ELSE "0"

-----------------------------------------------------------------------------
(* The registry *)

\* __bch2_uuid_to_fs
__bch2_uuid_to_fs(uuid) == {c \in bch_fs_list : fs[c].uuid = uuid}

\* (variant: __bch2_fs_online without the lookup of the UUID)
OnlineErrWithoutUuidCheck(c, uuid, sysfs_fails) ==
    IF c \in bch_fs_list THEN "NULL"
    ELSE IF sysfs_fails THEN "error creating sysfs objects"
    ELSE "NULL"

\* __bch2_fs_online: NULL when already listed, an error when the UUID is
\* listed or a sysfs/chardev object cannot be created, else list_add
FsOnlineErr(c, uuid, sysfs_fails) ==
    IF c \in bch_fs_list THEN "NULL"
    ELSE IF __bch2_uuid_to_fs(uuid) # {} THEN "filesystem UUID already open"
    ELSE IF sysfs_fails THEN "error creating sysfs objects"
    ELSE "NULL"

__bch2_fs_online(c, uuid, sysfs_fails) ==
    IF FsOnlineErr(c, uuid, sysfs_fails) = "NULL" THEN bch_fs_list \cup {c}
    ELSE bch_fs_list

\* Whether creating the sysfs objects can fail is asked only when
\* __bch2_fs_online gets that far
OnlineInputs(c, uuid) ==
    IF c \in bch_fs_list \/ __bch2_uuid_to_fs(uuid) # {} THEN {FALSE} ELSE BOOLEAN

-----------------------------------------------------------------------------
(* The call that returned in the last step: the function, the instance and  *)
(* the value returned (for a void function, the return taken; "BUG" for a   *)
(* call that ended in a BUG_ON).                                            *)

NoCall == [op |-> "none", c |-> 0, val |-> "none"]
Call(op, c, val) == [op |-> op, c |-> c, val |-> val]

\* Of an error string of __bch2_fs_start the record keeps only where it is from
StartFailure == "error from __bch2_fs_start"
CallErr(r) == IF r \in StartErrs THEN StartFailure ELSE r

-----------------------------------------------------------------------------
(* Actions. An instance's interfaces (sysfs, ioctl, mount) can start a call   *)
(* while the instance is live and bch2_fs_offline has not removed them.       *)

Live(c) == ~panic /\ fs[c].alloc = "live"

UserMay(c) ==
    /\ Live(c)
    /\ fs[c].pc_stop \in {"idle", "offline"}
    /\ fs[c].pc_open = "idle"
    /\ fs[c].pc["user"] = "idle"
    /\ fs[c].state_lock = "none"

Upd(c, x) == fs' = [fs EXCEPT ![c] = x]

\* The return of __bch2_fs_start into bch2_fs_start: ?: bch2_fs_online(c)
StartReturn(c, x) ==
    \E sysfs_fails \in OnlineInputs(c, x.uuid) :
        /\ Upd(c, x)
        /\ bch_fs_list' = __bch2_fs_online(c, x.uuid, sysfs_fails)
        /\ last' = Call("start", c, FsOnlineErr(c, x.uuid, sysfs_fails))

\* bch2_fs_start(c), called on an instance that is STARTING
bch2_fs_start(c) ==
    /\ UserMay(c)
    /\ fs[c].state = "STARTING"
    /\ \E arg \in StartInputs(fs[c]) :
          LET x == __bch2_fs_start(fs[c], arg[1], arg[2])
              r == StartRet(fs[c], arg[1], arg[2])
          IN  IF r = "NULL" THEN StartReturn(c, x)
              ELSE /\ Upd(c, x)
                   /\ last' = IF r = "pending" THEN NoCall
                              ELSE Call("start", c, CallErr(r))
                   /\ UNCHANGED bch_fs_list
    /\ UNCHANGED panic

\* (variant: bch2_fs_read_only_work without mutex_lock(&c->state_lock))
ReadOnlyWorkWithoutLock(c) ==
    /\ Live(c)
    /\ fs[c].read_only_work
    /\ fs[c].pc["work"] = "idle"
    /\ LET x == bch2_fs_read_only_enter([fs[c] EXCEPT !.read_only_work = FALSE], "work")
       IN  IF x.pc["work"] = "ro_wait1"
           THEN Upd(c, x) /\ last' = NoCall
           ELSE Upd(c, x) /\ last' = Call("read_only_work", c, "early")
    /\ UNCHANGED <<bch_fs_list, panic>>

\* mutex_lock(&c->state_lock); bch2_fs_read_only(c): up to the first wait
FsReadOnlyCall(c) ==
    /\ UserMay(c)
    /\ LET x == bch2_fs_read_only_enter(fs[c], "user")
       IN  IF x.pc["user"] = "ro_wait1"
           THEN Upd(c, [x EXCEPT !.state_lock = "user"]) /\ last' = NoCall
           ELSE Upd(c, x) /\ last' = Call("read_only", c, "early")
    /\ UNCHANGED <<bch_fs_list, panic>>

\* bch2_fs_read_only_work: the queued work takes the state lock and calls
\* bch2_fs_read_only
bch2_fs_read_only_work(c) ==
    /\ Live(c)
    /\ fs[c].read_only_work
    /\ fs[c].pc["work"] = "idle"
    /\ fs[c].state_lock = "none"
    /\ LET x == bch2_fs_read_only_enter([fs[c] EXCEPT !.read_only_work = FALSE], "work")
       IN  IF x.pc["work"] = "ro_wait1"
           THEN Upd(c, [x EXCEPT !.state_lock = "work"]) /\ last' = NoCall
           ELSE Upd(c, x) /\ last' = Call("read_only_work", c, "early")
    /\ UNCHANGED <<bch_fs_list, panic>>

\* bch2_fs_read_only between its two waits
FsReadOnlyTeardown(c, t) ==
    /\ Live(c)
    /\ fs[c].pc[t] = "ro_wait1"
    /\ ReadOnlyMayTeardown(fs[c])
    /\ Upd(c, bch2_fs_read_only_teardown(fs[c], t))
    /\ last' = NoCall
    /\ UNCHANGED <<bch_fs_list, panic>>

\* bch2_fs_read_only between its two waits, one statement of
\* __bch2_fs_read_only at a time; the first wait is over once the function
\* has started
FsReadOnlyTeardownStep(c, t) ==
    /\ Live(c)
    /\ fs[c].pc[t] = "ro_wait1"
    /\ fs[c].pc_td # "idle" \/ ReadOnlyMayTeardown(fs[c])
    /\ Upd(c, bch2_fs_read_only_teardown_step(fs[c], t))
    /\ last' = NoCall
    /\ UNCHANGED <<bch_fs_list, panic>>

\* bch2_fs_read_only after its second wait, and the return to the caller
FsReadOnlyFinish(c, t) ==
    /\ Live(c)
    /\ fs[c].pc[t] = "ro_wait2"
    /\ TestBit(fs[c], "WRITE_DISABLE_COMPLETE")
    /\ LET x == bch2_fs_read_only_finish(fs[c], t)
       IN  IF x.in_start /\ t = "user"
           THEN StartReturn(c, StartTail(x))
           ELSE /\ Upd(c, [x EXCEPT !.state_lock = "none"])
                /\ last' = Call(IF t = "user" THEN "read_only" ELSE "read_only_work",
                                c, "done")
                /\ UNCHANGED bch_fs_list
    /\ UNCHANGED panic

\* The workers bch2_fs_read_write can fail to start, when it gets that far
ReadWriteInputs(x) ==
    IF x.state \in {"STARTING", "RO"} THEN RwFails(x) \cup {NoFail} ELSE {NoFail}

\* mutex_lock(&c->state_lock); bch2_fs_read_write(c); mutex_unlock
FsReadWriteCall(c) ==
    /\ UserMay(c)
    /\ \E fail \in ReadWriteInputs(fs[c]) :
          /\ Upd(c, bch2_fs_read_write(fs[c], fail))
          /\ last' = Call("read_write", c, ReadWriteRet(fs[c], fail))
    /\ UNCHANGED <<bch_fs_list, panic>>

\* mutex_lock(&c->state_lock); bch2_fs_read_write(c) up to its test of
\* c->state, after which it returns NULL or goes on statement by statement
FsReadWriteBegin(c) ==
    /\ UserMay(c)
    /\ fs[c].pc_rw = "idle"
    /\ IF fs[c].state \notin {"STARTING", "RO"}
       THEN last' = Call("read_write", c, "NULL") /\ UNCHANGED fs
       ELSE /\ Upd(c, [fs[c] EXCEPT !.pc_rw = RwSteps[1], !.state_lock = "user"])
            /\ last' = NoCall
    /\ UNCHANGED <<bch_fs_list, panic>>

\* The next statement of the bch2_fs_read_write that is running; the call
\* returns after the last one, or after the err: label
FsReadWriteStep(c) ==
    /\ Live(c)
    /\ fs[c].pc_rw # "idle"
    /\ \E fail \in RwStepFails(fs[c]) :
          /\ Upd(c, bch2_fs_read_write_step(fs[c], fail))
          /\ last' = IF bch2_fs_read_write_step(fs[c], fail).pc_rw = "idle"
                     THEN Call("read_write", c, RwErr(fail))
                     ELSE NoCall
    /\ UNCHANGED <<bch_fs_list, panic>>

\* (variant: bch2_fs_emergency_read_only that takes c->state_lock)
EmergencyReadOnlyTakesLock(c) ==
    /\ Live(c)
    /\ fs[c].state_lock = "none"
    /\ Len(fs[c].ero_rets) < MaxEroCalls
    /\ Upd(c, bch2_fs_emergency_read_only(fs[c]))
    /\ last' = Call("emergency_read_only", c,
                    IF TestBit(fs[c], "EMERGENCY_RO") THEN "false" ELSE "true")
    /\ UNCHANGED <<bch_fs_list, panic>>

\* bch2_fs_emergency_read_only(c), from any thread
FsEmergencyReadOnly(c) ==
    /\ Live(c)
    /\ Len(fs[c].ero_rets) < MaxEroCalls
    /\ Upd(c, bch2_fs_emergency_read_only(fs[c]))
    /\ last' = Call("emergency_read_only", c,
                    IF TestBit(fs[c], "EMERGENCY_RO") THEN "false" ELSE "true")
    /\ UNCHANGED <<bch_fs_list, panic>>

\* A foreground write takes a reference on c->writes (percpu_ref_tryget)
WriteStart(c) ==
    /\ Live(c)
    /\ fs[c].pc_stop \in {"idle", "offline"}
    /\ ~fs[c].writes_dead
    /\ fs[c].nr_writes < MaxWrites
    /\ Upd(c, [fs[c] EXCEPT !.nr_writes = @ + 1])
    /\ last' = NoCall
    /\ UNCHANGED <<bch_fs_list, panic>>

\* The write completes and drops its reference
WriteDone(c) ==
    /\ Live(c)
    /\ fs[c].nr_writes > 0
    /\ Upd(c, [fs[c] EXCEPT !.nr_writes = @ - 1])
    /\ last' = NoCall
    /\ UNCHANGED <<bch_fs_list, panic>>

\* The last reference of the killed c->writes is gone: bch2_writes_disabled
WritesDisabled(c) ==
    /\ Live(c)
    /\ fs[c].writes_dead /\ ~fs[c].writes_released
    /\ fs[c].nr_writes = 0
    /\ Upd(c, bch2_writes_disabled(fs[c]))
    /\ last' = NoCall
    /\ UNCHANGED <<bch_fs_list, panic>>

\* bch2_dev_set_state(c, ca, new_state, flags)
bch2_dev_set_state(c) ==
    /\ UserMay(c)
    /\ \E i \in Members(fs[c]) : \E arg \in DevSetStateInputs(fs[c], i) :
          IF DevSetStateBug(fs[c], i, arg.new_state, arg.flags, arg.enough)
          THEN panic' = TRUE /\ last' = NoCall /\ UNCHANGED fs
          ELSE /\ Upd(c, __bch2_dev_set_state(fs[c], i, arg.new_state, arg.flags,
                                              arg.enough, "none"))
               /\ last' = Call("dev_set_state", c,
                               DevSetStateRet(fs[c], i, arg.new_state, arg.flags,
                                              arg.enough, "none"))
               /\ UNCHANGED panic
    /\ UNCHANGED bch_fs_list


\* bch2_dev_add(c, path)
DevAdd(c) ==
    /\ UserMay(c)
    /\ \E arg \in DevAddInputs(fs[c]) :
          /\ Upd(c, bch2_dev_add(fs[c], arg))
          /\ last' = Call("dev_add", c, DevAddRet(fs[c], arg))
    /\ UNCHANGED <<bch_fs_list, panic>>

\* bch2_dev_remove(c, ca, flags)
DevRemove(c) ==
    /\ UserMay(c)
    /\ \E i \in Members(fs[c]) : \E arg \in DevRemoveInputs(fs[c], i) :
          /\ Upd(c, bch2_dev_remove(fs[c], i, arg))
          /\ last' = Call("dev_remove", c, DevRemoveRet(fs[c], i, arg))
    /\ UNCHANGED <<bch_fs_list, panic>>

\* bch2_dev_online(c, path), path a device whose superblock names slot i; a
\* call that reaches __bch2_dev_online for a slot without a record ends in
\* its BUG_ON, after the newer superblock has replaced the image
DevOnline(c) ==
    /\ UserMay(c)
    /\ \E i \in Slot : \E arg \in DevOnlineInputs(fs[c], i) :
          IF ~arg.refused /\ DevOnlineBug(fs[c], i)
          THEN /\ panic' = TRUE
               /\ Upd(c, DevOnlineSb(fs[c], arg.seq))
               /\ last' = Call("dev_online", c, "BUG")
          ELSE /\ Upd(c, bch2_dev_online(fs[c], i, arg))
               /\ last' = Call("dev_online", c, DevOnlineCallRet(fs[c], i, arg))
               /\ UNCHANGED panic
    /\ UNCHANGED bch_fs_list

\* bch2_dev_offline(c, ca, flags)
DevOffline(c) ==
    /\ UserMay(c)
    /\ \E i \in Members(fs[c]) : \E enough \in BOOLEAN :
          /\ Upd(c, bch2_dev_offline(fs[c], i, enough))
          /\ last' = Call("dev_offline", c, DevOfflineRet(fs[c], i, enough))
    /\ UNCHANGED <<bch_fs_list, panic>>

\* bch2_dev_evacuate(c, ca) up to mutex_unlock(&c->state_lock): -EINVAL for
\* a member that is RW, else on to the migration with the lock released
DevEvacuateCall(c) ==
    /\ Live(c)
    /\ fs[c].pc_stop \in {"idle", "offline"}
    /\ fs[c].pc_evac = "idle"
    /\ fs[c].state_lock = "none"
    /\ \E i \in Members(fs[c]) :
          /\ Upd(c, bch2_dev_evacuate_enter(fs[c], i))
          /\ last' = IF bch2_dev_evacuate_enter(fs[c], i).pc_evac = "idle"
                     THEN Call("dev_evacuate", c, "-EINVAL")
                     ELSE NoCall
    /\ UNCHANGED <<bch_fs_list, panic>>

\* ret = bch2_move_data_off_device(ca)
DevEvacuateData(c) ==
    /\ Live(c)
    /\ fs[c].pc_evac = "data"
    /\ \E ret \in {"0", "-EIO"} :
          IF ret = "0"
          THEN Upd(c, [fs[c] EXCEPT !.pc_evac = "metadata"]) /\ last' = NoCall
          ELSE /\ Upd(c, [fs[c] EXCEPT !.pc_evac = "idle"])
               /\ last' = Call("dev_evacuate", c, ret)
    /\ UNCHANGED <<bch_fs_list, panic>>

\* ret = bch2_move_metadata_off_device(ca)
DevEvacuateMetadata(c) ==
    /\ Live(c)
    /\ fs[c].pc_evac = "metadata"
    /\ \E ret \in {"0", "-EIO"} :
          IF ret = "0"
          THEN Upd(c, [fs[c] EXCEPT !.pc_evac = "has_data"]) /\ last' = NoCall
          ELSE /\ Upd(c, [fs[c] EXCEPT !.pc_evac = "idle"])
               /\ last' = Call("dev_evacuate", c, ret)
    /\ UNCHANGED <<bch_fs_list, panic>>

\* data = bch2_dev_has_data(c, ca), and the return of bch2_dev_evacuate
DevEvacuateHasData(c) ==
    /\ Live(c)
    /\ fs[c].pc_evac = "has_data"
    /\ \E data \in BOOLEAN :
          /\ Upd(c, [fs[c] EXCEPT !.pc_evac = "idle"])
          /\ last' = Call("dev_evacuate", c, IF data THEN "-EINVAL" ELSE "0")
    /\ UNCHANGED <<bch_fs_list, panic>>


-----------------------------------------------------------------------------
(* bch2_dev_remove step by step, next to the readers of c->devs[].  A reader *)
(* of slot i is inside an RCU read section in which it has loaded the        *)
(* pointer c->devs[i] (dev_rcu), or holds a reference on ca->ref it took     *)
(* inside such a section (dev_ref).  Both count the holders of the record    *)
(* that is, or last was, in the slot.                                        *)

\* rcu_read_lock(); ca = rcu_dereference(c->devs[i]), which is not NULL
DevRcuRead(c, i) ==
    /\ Live(c)
    /\ fs[c].devs[i].present
    /\ fs[c].dev_rcu[i] < MaxRefs
    /\ Upd(c, [fs[c] EXCEPT !.dev_rcu[i] = @ + 1])
    /\ last' = NoCall
    /\ UNCHANGED <<bch_fs_list, panic>>

\* percpu_ref_get(&ca->ref) inside the read section
DevRcuGetRef(c, i) ==
    /\ Live(c)
    /\ fs[c].dev_rcu[i] > 0
    /\ fs[c].dev_ref[i] < MaxRefs
    /\ Upd(c, [fs[c] EXCEPT !.dev_ref[i] = @ + 1])
    /\ last' = NoCall
    /\ UNCHANGED <<bch_fs_list, panic>>

\* rcu_read_unlock()
DevRcuUnlock(c, i) ==
    /\ Live(c)
    /\ fs[c].dev_rcu[i] > 0
    /\ Upd(c, [fs[c] EXCEPT !.dev_rcu[i] = @ - 1])
    /\ last' = NoCall
    /\ UNCHANGED <<bch_fs_list, panic>>

\* percpu_ref_put(&ca->ref) by a holder
DevRefPut(c, i) ==
    /\ Live(c)
    /\ fs[c].dev_ref[i] > 0
    /\ Upd(c, [fs[c] EXCEPT !.dev_ref[i] = @ - 1])
    /\ last' = NoCall
    /\ UNCHANGED <<bch_fs_list, panic>>

\* bch2_dev_remove up to rcu_assign_pointer(c->devs[ca->dev_idx], NULL) in
\* bch2_dev_stop: the reference of the caller is dropped, the checks, then
\* __bch2_dev_offline and the slot cleared; a call that fails a check returns
DevRemoveClear(c) ==
    /\ UserMay(c)
    /\ fs[c].pc_remove = "idle"
    /\ \E i \in Members(fs[c]) : \E arg \in DevRemoveInputs(fs[c], i) :
          IF DevRemoveTaken(fs[c], i, arg) = "remove"
          THEN /\ Upd(c, [bch2_dev_stop(MapDevs(fs[c], {i}, __bch2_dev_offline), i)
                            EXCEPT !.pc_remove = "cleared", !.remove_dev = i,
                                   !.state_lock = "user"])
               /\ last' = NoCall
          ELSE /\ last' = Call("dev_remove", c, DevRemoveRet(fs[c], i, arg))
               /\ UNCHANGED fs
    /\ UNCHANGED <<bch_fs_list, panic>>

\* (variant: bch2_dev_stop without synchronize_rcu)
DevStopWithoutSynchronizeRcu(c) ==
    /\ Live(c)
    /\ fs[c].pc_remove = "cleared"
    /\ Upd(c, [fs[c] EXCEPT !.pc_remove = "synced"])
    /\ last' = NoCall
    /\ UNCHANGED <<bch_fs_list, panic>>

\* synchronize_rcu(): returns when every read section that was running has
\* ended
DevStopSynchronizeRcu(c) ==
    /\ Live(c)
    /\ fs[c].pc_remove = "cleared"
    /\ fs[c].dev_rcu[fs[c].remove_dev] = 0
    /\ Upd(c, [fs[c] EXCEPT !.pc_remove = "synced"])
    /\ last' = NoCall
    /\ UNCHANGED <<bch_fs_list, panic>>

\* percpu_ref_kill(&ca->ref); wait_for_completion(&ca->stop_complete)
DevStopDrain(c) ==
    /\ Live(c)
    /\ fs[c].pc_remove = "synced"
    /\ fs[c].dev_ref[fs[c].remove_dev] = 0
    /\ Upd(c, [fs[c] EXCEPT !.pc_remove = "drained"])
    /\ last' = NoCall
    /\ UNCHANGED <<bch_fs_list, panic>>

\* bch2_dev_free(ca), then the UUID of the slot zeroed, bch2_write_super,
\* the locks released and return 0
DevRemoveFree(c) ==
    /\ Live(c)
    /\ fs[c].pc_remove = "drained"
    /\ Upd(c, bch2_write_super(
                  [fs[c] EXCEPT !.sb.uuid[fs[c].remove_dev] = ZeroUuid,
                                !.pc_remove = "idle", !.state_lock = "none"]))
    /\ last' = Call("dev_remove", c, "0")
    /\ UNCHANGED <<bch_fs_list, panic>>

\* ca->io_ref is a percpu_ref: io_ref is its count, which holds one initial
\* reference while the reference is live, and io_dead says that it has been
\* killed or was initialised dead.  An I/O path takes a reference on a live
\* io_ref (percpu_ref_tryget) ...
IoGet(c, i) ==
    /\ Live(c)
    /\ fs[c].devs[i].present /\ ~fs[c].io_dead[i]
    /\ fs[c].io_ref[i] <= MaxRefs
    /\ Upd(c, [fs[c] EXCEPT !.io_ref[i] = @ + 1])
    /\ last' = NoCall
    /\ UNCHANGED <<bch_fs_list, panic>>

\* percpu_ref_put(ref): the count drops by one, and the release callback
\* runs when it drops to zero
percpu_ref_put(x, i) ==
    [x EXCEPT !.io_ref[i] = @ - 1,
              !.offline_complete[i] = (x.io_ref[i] = 1) \/ @]

\* ... and drops it when the I/O is done
IoPut(c, i) ==
    /\ Live(c)
    /\ fs[c].io_ref[i] > (IF fs[c].io_dead[i] THEN 0 ELSE 1)
    /\ Upd(c, percpu_ref_put(fs[c], i))
    /\ last' = NoCall
    /\ UNCHANGED <<bch_fs_list, panic>>

\* bch2_dev_offline, or bch2_dev_remove with all its checks passed, up to
\* the percpu_ref_kill in __bch2_dev_offline: the state lock is taken and
\* __bch2_dev_read_only has run; a call that fails a check returns
DevOfflineBegin(c) ==
    /\ UserMay(c)
    /\ fs[c].pc_off = "idle" /\ fs[c].pc_remove = "idle"
    /\ \E i \in Members(fs[c]) :
          \/ \E enough \in BOOLEAN :
                IF bch2_dev_state_allowed(fs[c], i, "FAILED", {}, enough)
                THEN /\ Upd(c, [MapDevs(fs[c], {i}, __bch2_dev_read_only)
                                  EXCEPT !.pc_off = "kill", !.off_dev = i,
                                         !.off_caller = "dev_offline",
                                         !.state_lock = "user"])
                     /\ last' = NoCall
                ELSE /\ last' = Call("dev_offline", c, "-EINVAL")
                     /\ UNCHANGED fs
          \/ \E arg \in DevRemoveInputs(fs[c], i) :
                IF DevRemoveTaken(fs[c], i, arg) = "remove"
                THEN /\ Upd(c, [MapDevs(fs[c], {i}, __bch2_dev_read_only)
                                  EXCEPT !.pc_off = "kill", !.off_dev = i,
                                         !.off_caller = "dev_remove",
                                         !.state_lock = "user"])
                     /\ last' = NoCall
                ELSE /\ last' = Call("dev_remove", c, DevRemoveRet(fs[c], i, arg))
                     /\ UNCHANGED fs
    /\ UNCHANGED <<bch_fs_list, panic>>

\* (variant: __bch2_dev_offline without wait_for_completion)
DevOfflineNoWait(c) ==
    /\ Live(c)
    /\ fs[c].pc_off = "wait"
    /\ Upd(c, [fs[c] EXCEPT !.pc_off = "free"])
    /\ last' = NoCall
    /\ UNCHANGED <<bch_fs_list, panic>>

\* reinit_completion(&ca->offline_complete); percpu_ref_kill(&ca->io_ref):
\* the reference is marked dead and its initial reference dropped
DevOfflineKill(c) ==
    /\ Live(c)
    /\ fs[c].pc_off = "kill"
    /\ LET i == fs[c].off_dev
           x == [fs[c] EXCEPT !.offline_complete[i] = FALSE, !.io_dead[i] = TRUE]
       IN  Upd(c, [percpu_ref_put(x, i) EXCEPT !.pc_off = "wait"])
    /\ last' = NoCall
    /\ UNCHANGED <<bch_fs_list, panic>>

\* wait_for_completion(&ca->offline_complete) returns
DevOfflineWait(c) ==
    /\ Live(c)
    /\ fs[c].pc_off = "wait"
    /\ fs[c].offline_complete[fs[c].off_dev]
    /\ Upd(c, [fs[c] EXCEPT !.pc_off = "free"])
    /\ last' = NoCall
    /\ UNCHANGED <<bch_fs_list, panic>>

\* bch2_free_super(&ca->disk_sb), bch2_dev_journal_exit: the block device is
\* released.  bch2_dev_offline unlocks and returns 0; bch2_dev_remove goes on
\* to bch2_dev_stop, which clears the slot
DevOfflineFree(c) ==
    /\ Live(c)
    /\ fs[c].pc_off = "free"
    /\ LET i == fs[c].off_dev
           x == [fs[c] EXCEPT !.devs[i].online = FALSE, !.pc_off = "idle"]
       IN  IF fs[c].off_caller = "dev_offline"
           THEN /\ Upd(c, [x EXCEPT !.state_lock = "none"])
                /\ last' = Call("dev_offline", c, "0")
           ELSE /\ Upd(c, [bch2_dev_stop(x, i) EXCEPT !.pc_remove = "cleared",
                                                      !.remove_dev = i])
                /\ last' = NoCall
    /\ UNCHANGED <<bch_fs_list, panic>>

\* bch2_uuid_to_fs(uuid): the instance of bch_fs_list with this UUID, with a
\* reference on its closure (closure_get), or NULL
bch2_uuid_to_fs(uuid) ==
    /\ ~panic
    /\ IF __bch2_uuid_to_fs(uuid) = {}
       THEN last' = Call("uuid_to_fs", 0, "NULL") /\ UNCHANGED fs
       ELSE \E c \in __bch2_uuid_to_fs(uuid) :
               /\ fs[c].cl_refs < MaxRefs
               /\ Upd(c, [fs[c] EXCEPT !.cl_refs = @ + 1])
               /\ last' = Call("uuid_to_fs", c, "found")
    /\ UNCHANGED <<bch_fs_list, panic>>

\* closure_put(&c->cl) by a caller that holds a reference
FsPut(c) ==
    /\ ~panic
    /\ fs[c].cl_refs > 0
    /\ Upd(c, [fs[c] EXCEPT !.cl_refs = @ - 1])
    /\ last' = NoCall
    /\ UNCHANGED <<bch_fs_list, panic>>

-----------------------------------------------------------------------------
(* bch2_fs_stop *)

\* mutex_lock(&c->state_lock); BUG_ON(c->state == BCH_FS_STOPPING);
\* c->state = BCH_FS_STOPPING; mutex_unlock
FsStopBegin(x) == [x EXCEPT !.state = "STOPPING", !.pc_stop = "offline"]

bch2_fs_stop(c) ==
    /\ Live(c)
    /\ fs[c].pc_stop = "idle"
    /\ fs[c].pc_open = "idle"
    /\ fs[c].state_lock = "none"
    /\ fs[c].state # "STOPPING"
    /\ Upd(c, FsStopBegin(fs[c]))
    /\ last' = NoCall
    /\ UNCHANGED <<bch_fs_list, panic>>

\* bch2_fs_offline, first part: list_del under bch_fs_list_lock, then the
\* sysfs and chardev interfaces are removed
FsOfflineListDel(c) ==
    /\ Live(c)
    /\ fs[c].pc_stop = "offline"
    /\ bch_fs_list' = bch_fs_list \ {c}
    /\ Upd(c, [fs[c] EXCEPT !.pc_stop = "teardown"])
    /\ last' = NoCall
    /\ UNCHANGED panic

\* bch2_fs_offline, last part: __bch2_fs_read_only under the state lock
FsOfflineTeardown(c) ==
    /\ Live(c)
    /\ fs[c].pc_stop = "teardown"
    /\ fs[c].state_lock = "none"
    /\ Upd(c, [__bch2_fs_read_only(fs[c]) EXCEPT !.pc_stop = "sync"])
    /\ last' = NoCall
    /\ UNCHANGED <<bch_fs_list, panic>>

\* (variant: bch2_fs_stop without closure_sync(&c->cl))
FsStopWithoutSync(c) ==
    /\ Live(c)
    /\ fs[c].pc_stop = "sync"
    /\ Upd(c, [fs[c] EXCEPT !.pc_stop = "exit"])
    /\ last' = NoCall
    /\ UNCHANGED <<bch_fs_list, panic>>

\* closure_sync(&c->cl): every reference taken by a caller has been dropped
FsStopSync(c) ==
    /\ Live(c)
    /\ fs[c].pc_stop = "sync"
    /\ fs[c].pc["user"] = "idle"
    /\ fs[c].cl_refs = 0
    /\ Upd(c, [fs[c] EXCEPT !.pc_stop = "exit"])
    /\ last' = NoCall
    /\ UNCHANGED <<bch_fs_list, panic>>

\* bch2_fs_exit before its loop over c->devs[]: del_timer_sync,
\* cancel_delayed_work_sync(&c->pd_controllers_update),
\* cancel_work_sync(&c->read_only_work)
FsExitCancel(x) ==
    [x EXCEPT !.pd_controllers_update = FALSE, !.read_only_work = FALSE]

\* bch2_fs_exit: cancel_work_sync(&c->read_only_work) waits for a running
\* work and removes a queued one; the device records and the instance are freed
bch2_fs_exit(x) ==
    [NoFs EXCEPT !.alloc = "freed", !.pc_stop = "done", !.uuid = x.uuid]

\* bch2_fs_exit, then the return of bch2_fs_stop
FsStopExit(c) ==
    /\ Live(c)
    /\ fs[c].pc_stop = "exit"
    /\ fs[c].pc["work"] = "idle"
    /\ Upd(c, bch2_fs_exit(fs[c]))
    /\ last' = Call("stop", c, "done")
    /\ UNCHANGED <<bch_fs_list, panic>>

-----------------------------------------------------------------------------
(* Opening a filesystem: bch2_fs_open and bch2_fs_open_incremental *)

DefaultReplicas ==
    [metadata_replicas |-> 1, metadata_replicas_required |-> 1,
     data_replicas |-> 1, data_replicas_required |-> 1]

DefaultOpts == [read_only |-> FALSE, noreplay |-> FALSE, nostart |-> FALSE]

\* (variant: a member loop left early without percpu_ref_put(&ca->io_ref))
rw_member_break_without_put(x, i) == x

\* if (...) { percpu_ref_put(&ca->io_ref); goto err; } in a member loop
rw_member_break(x, i) == percpu_ref_put(x, i)

\* for_each_rw_member(ca, c, i) from slot i on: the iteration takes the
\* io_ref of each RW member whose reference is live before the body runs and
\* drops it when it moves on; the body fails, and the loop is left, at device
\* fail_dev (-1: at no device)
RECURSIVE for_each_rw_member(_, _, _)
for_each_rw_member(x, i, fail_dev) ==
    IF i >= NrDevs THEN x
    ELSE IF ~(x.devs[i].present /\ x.devs[i].mi_state = "RW" /\ ~x.io_dead[i])
    THEN for_each_rw_member(x, i + 1, fail_dev)
    ELSE LET got == [x EXCEPT !.io_ref[i] = @ + 1]
         IN  IF i = fail_dev THEN rw_member_break(got, i)
             ELSE for_each_rw_member(percpu_ref_put(got, i), i + 1, fail_dev)

\* The io_ref counts when bch2_fs_read_write returns: the loops at 336, 341
\* and 352
ReadWriteIoRefs(x, fail) ==
    IF x.state \notin {"STARTING", "RO"} THEN x
    ELSE
    LET at(a) == IF fail.at = a THEN fail.dev ELSE -1
        a == for_each_rw_member(x, 0, -1)
        b == for_each_rw_member(a, 0, at("allocator"))
    IN  IF fail.at \in {"allocator", "gc"} THEN b
        ELSE for_each_rw_member(b, 0, at("moving_gc"))

\* The io_ref counts when __bch2_fs_start returns: the loop at 709, of an
\* existing filesystem the loop at 773, of a new one the loops at 808 and
\* 827, then bch2_fs_read_write
StartIoRefs(x, fail) ==
    LET at(a) == IF fail.at = a THEN fail.dev ELSE -1
        a == for_each_rw_member(x, 0, -1)
        b == IF ~x.sb_initialized /\ StartRank(fail) >= 5
             THEN for_each_rw_member(a, 0, at("journal_alloc")) ELSE a
        c == IF ~SkipsReplay(x) /\ StartRank(fail) >= 7
             THEN for_each_rw_member(b, 0, at("allocator_start")) ELSE b
    IN  IF StartFailed(fail) \/ x.opts.read_only THEN c
        ELSE ReadWriteIoRefs(c, fail)

\* bch2_fs_open up to bch2_fs_may_start: bch2_fs_alloc, then __bch2_dev_online
\* of every device given
OpenedFs(uuid, replicas, opts, initialized, clean, mi, online) ==
    LET x == bch2_fs_alloc(uuid, replicas, opts, initialized, clean, mi)
    IN  MapDevs(x, online, DevOnlineCommit)

\* The struct bch_fs the next bch2_fs_alloc returns
FreshInst ==
    {c \in Inst : /\ fs[c].alloc = "none"
                  /\ \A d \in Inst : d < c => fs[d].alloc # "none"}

\* bch2_fs_may_start (degraded option off): every member that is RW or RO is
\* online, and bch2_have_enough_devs, whose answer is `enough`
AllMembersOnline(x) ==
    \A i \in Members(x) :
        ~(~x.devs[i].online /\ x.devs[i].mi_state \in {"RW", "RO"})

\* (variant: bch2_fs_may_start without the loop over the members)
MayStartWithoutMemberCheck(x, enough) == enough

bch2_fs_may_start(x, enough) == AllMembersOnline(x) /\ enough

MayStartInputs(x) == IF AllMembersOnline(x) THEN BOOLEAN ELSE {FALSE}

\* The err: label of an open call that allocated the instance: bch2_fs_stop(c).
\* The instance is in no list and has no interface, so nothing runs between
\* the steps of this bch2_fs_stop; list_del leaves bch_fs_list as it is.
OpenFail(x) == bch2_fs_exit(__bch2_fs_read_only(FsStopBegin(x)))

\* bch2_fs_open on some devices of one filesystem, up to bch2_fs_online: the
\* instance is not in bch_fs_list and has no sysfs interface yet
FsOpen(c) ==
    /\ ~panic
    /\ c \in FreshInst
    /\ \E uuid \in UUIDs, online \in (SUBSET Slot) \ {{}}, nostart \in BOOLEAN :
          LET x == OpenedFs(uuid, DefaultReplicas,
                            [DefaultOpts EXCEPT !.nostart = nostart],
                            TRUE, TRUE, [i \in Slot |-> "RW"], online)
          IN  \E enough \in MayStartInputs(x) :
                IF ~bch2_fs_may_start(x, enough)
                THEN /\ Upd(c, OpenFail(x))
                     /\ last' = Call("open", c, "insufficient devices")
                ELSE IF nostart
                THEN /\ Upd(c, [x EXCEPT !.pc_open = "online"])
                     /\ last' = NoCall
                ELSE \E arg \in StartInputs(x) :
                        LET y == __bch2_fs_start(x, arg[1], arg[2])
                            r == StartRet(x, arg[1], arg[2])
                        IN  IF r = "NULL"
                            THEN /\ Upd(c, [y EXCEPT !.pc_open = "online"])
                                 /\ last' = NoCall
                            ELSE /\ Upd(c, OpenFail(y))
                                 /\ last' = Call("open", c, CallErr(r))
    /\ UNCHANGED <<bch_fs_list, panic>>

\* bch2_fs_open from bch2_fs_online to its return, or to its err: label
FsOpenOnline(c) ==
    /\ Live(c)
    /\ fs[c].pc_open = "online"
    /\ \E sysfs_fails \in OnlineInputs(c, fs[c].uuid) :
          LET err == FsOnlineErr(c, fs[c].uuid, sysfs_fails)
          IN  IF err = "NULL"
              THEN /\ Upd(c, [fs[c] EXCEPT !.pc_open = "idle"])
                   /\ bch_fs_list' = __bch2_fs_online(c, fs[c].uuid, sysfs_fails)
                   /\ last' = Call("open", c, "NULL")
              ELSE /\ Upd(c, OpenFail(fs[c]))
                   /\ last' = Call("open", c, err)
                   /\ UNCHANGED bch_fs_list
    /\ UNCHANGED panic

\* err: of __bch2_fs_open_incremental: bch2_fs_stop(c) if this call allocated
\* the instance, else only the reference is dropped
IncrementalErr(c, x, allocated_fs, err) ==
    /\ Upd(c, IF allocated_fs THEN OpenFail(x) ELSE x)
    /\ last' = Call("open_incremental", c, err)
    /\ UNCHANGED <<bch_fs_list, panic>>

\* __bch2_fs_open_incremental from __bch2_fs_online on
IncrementalOnline(c, x, allocated_fs) ==
    \E sysfs_fails \in OnlineInputs(c, x.uuid) :
        IF FsOnlineErr(c, x.uuid, sysfs_fails) = "NULL"
        THEN /\ Upd(c, x)
             /\ bch_fs_list' = __bch2_fs_online(c, x.uuid, sysfs_fails)
             /\ last' = Call("open_incremental", c, "NULL")
             /\ UNCHANGED panic
        ELSE IncrementalErr(c, x, allocated_fs, FsOnlineErr(c, x.uuid, sysfs_fails))

\* __bch2_fs_open_incremental(sb) for the device in slot i of filesystem uuid,
\* all of it under bch_fs_list_lock.  A call that finds the instance started
\* and able to start ends in the BUG_ON of __bch2_fs_start, the device attached.
FsOpenIncremental(c, uuid, i) ==
    LET allocated_fs == __bch2_uuid_to_fs(uuid) = {}
        x0 == IF allocated_fs
              THEN bch2_fs_alloc(uuid, DefaultReplicas, DefaultOpts, TRUE, TRUE,
                                 [j \in Slot |-> "RW"])
              ELSE fs[c]
        x == MapDevs(x0, {i}, DevOnlineCommit)
    IN  /\ ~panic
        /\ c \in (IF allocated_fs THEN FreshInst ELSE __bch2_uuid_to_fs(uuid))
        /\ x0.state_lock = "none"
        /\ IF x0.devs[i].online
           THEN IncrementalErr(c, x0, allocated_fs, "bch2_dev_online() error")
           ELSE \E enough \in MayStartInputs(x) :
                  IF ~x.opts.nostart /\ bch2_fs_may_start(x, enough)
                  THEN IF x.state # "STARTING"
                       THEN /\ panic' = TRUE
                            /\ Upd(c, x)
                            /\ last' = Call("open_incremental", c, "BUG")
                            /\ UNCHANGED bch_fs_list
                       ELSE \E arg \in StartInputs(x) :
                              IF StartRet(x, arg[1], arg[2]) = "NULL"
                              THEN IncrementalOnline(
                                       c, __bch2_fs_start(x, arg[1], arg[2]), allocated_fs)
                              ELSE IncrementalErr(
                                       c, __bch2_fs_start(x, arg[1], arg[2]), allocated_fs,
                                       CallErr(StartRet(x, arg[1], arg[2])))
                  ELSE IncrementalOnline(c, x, allocated_fs)

-----------------------------------------------------------------------------
(* Spec: the life of one instance that bch2_fs_open has returned with the    *)
(* nostart option on: allocated, every member device online, registered,    *)
(* not yet started.  Its devices keep their membership state.               *)

SbStates == {<<FALSE, FALSE>>, <<TRUE, FALSE>>, <<TRUE, TRUE>>}

InitFs ==
    {OpenedFs("A", DefaultReplicas, o, sb[1], sb[2], [i \in Slot |-> "RW"], Slot) :
        o \in {o \in StartOpts : o.nostart}, sb \in SbStates}

Init ==
    /\ \E x \in InitFs : fs = [c \in Inst |-> IF c = 1 THEN x ELSE NoFs]
    /\ bch_fs_list = {1}
    /\ panic = FALSE
    /\ last = NoCall

Next ==
    \E c \in Inst :
        \/ bch2_fs_start(c)
        \/ FsReadOnlyCall(c)
        \/ bch2_fs_read_only_work(c)
        \/ \E t \in Threads : FsReadOnlyTeardown(c, t)
        \/ \E t \in Threads : FsReadOnlyFinish(c, t)
        \/ FsReadWriteCall(c)
        \/ FsEmergencyReadOnly(c)
        \/ WriteStart(c)
        \/ WriteDone(c)
        \/ WritesDisabled(c)
        \/ bch2_fs_stop(c)
        \/ FsOfflineListDel(c)
        \/ FsOfflineTeardown(c)
        \/ FsStopSync(c)
        \/ FsStopExit(c)

Spec == Init /\ [][Next]_vars

\* The workqueue runs a queued work, a thread whose wait condition holds is
\* woken, a write in flight completes, and the release callback of a killed
\* reference with no holder runs
Fairness ==
    \A c \in Inst :
        /\ WF_vars(bch2_fs_read_only_work(c))
        /\ WF_vars(WriteDone(c))
        /\ WF_vars(WritesDisabled(c))
        /\ \A t \in Threads : /\ WF_vars(FsReadOnlyTeardown(c, t))
                              /\ WF_vars(FsReadOnlyFinish(c, t))

SpecFair == Init /\ [][Next]_vars /\ Fairness

-----------------------------------------------------------------------------
(* SpecDev: one started-or-not instance whose replication options vary and  *)
(* whose members change state through bch2_dev_set_state.                   *)

InitDev ==
    /\ \E r \in ReplicaOpts :
          fs = [c \in Inst |->
                  IF c = 1
                  THEN OpenedFs("A", r, [DefaultOpts EXCEPT !.nostart = TRUE],
                                TRUE, TRUE, [i \in Slot |-> "RW"], Slot)
                  ELSE NoFs]
    /\ bch_fs_list = {1}
    /\ panic = FALSE
    /\ last = NoCall

NextDev ==
    \E c \in Inst :
        \/ bch2_fs_start(c)
        \/ bch2_dev_set_state(c)
        \/ FsReadOnlyCall(c)
        \/ WritesDisabled(c)
        \/ \E t \in Threads : FsReadOnlyTeardown(c, t)
        \/ \E t \in Threads : FsReadOnlyFinish(c, t)
        \/ FsReadWriteCall(c)

SpecDev == InitDev /\ [][NextDev]_vars

-----------------------------------------------------------------------------
(* SpecReg: instances come and go through bch2_fs_open,                     *)
(* bch2_fs_open_incremental, bch2_fs_start and bch2_fs_stop.                *)

InitReg ==
    /\ fs = [c \in Inst |-> NoFs]
    /\ bch_fs_list = {}
    /\ panic = FALSE
    /\ last = NoCall

NextReg ==
    \/ \E c \in Inst :
        \/ FsOpen(c)
        \/ FsOpenOnline(c)
        \/ \E uuid \in UUIDs, i \in Slot : FsOpenIncremental(c, uuid, i)
        \/ bch2_fs_start(c)
        \/ bch2_fs_stop(c)
        \/ FsOfflineListDel(c)
        \/ FsOfflineTeardown(c)
        \/ FsStopSync(c)
        \/ FsStopExit(c)

SpecReg == InitReg /\ [][NextReg]_vars

-----------------------------------------------------------------------------
(* SpecMem: one started instance with a free member slot; devices are      *)
(* added, taken offline, brought back, change state and are removed.        *)

MemFs ==
    OpenedFs("A", DefaultReplicas, [DefaultOpts EXCEPT !.nostart = TRUE], TRUE, TRUE,
             [i \in Slot |-> IF i = NrDevs - 1 THEN "none" ELSE "RW"],
             Slot \ {NrDevs - 1})

InitMem ==
    /\ fs = [c \in Inst |->
               IF c = 1 THEN __bch2_fs_start(MemFs, NoFail, "-EINVAL") ELSE NoFs]
    /\ bch_fs_list = {1}
    /\ panic = FALSE
    /\ last = NoCall

NextMem ==
    \E c \in Inst :
        \/ bch2_dev_set_state(c)
        \/ DevAdd(c)
        \/ DevRemove(c)
        \/ DevOnline(c)
        \/ DevOffline(c)

SpecMem == InitMem /\ [][NextMem]_vars

-----------------------------------------------------------------------------
(* SpecEvac: bch2_dev_evacuate of a member next to bch2_dev_set_state calls  *)
(* on the members of the same instance.                                     *)

InitEvac ==
    /\ \E mi \in [Slot -> MemberStates] :
          fs = [c \in Inst |->
                  IF c = 1
                  THEN OpenedFs("A", DefaultReplicas,
                                [DefaultOpts EXCEPT !.nostart = TRUE], TRUE, TRUE,
                                mi, Slot)
                  ELSE NoFs]
    /\ bch_fs_list = {1}
    /\ panic = FALSE
    /\ last = NoCall

NextEvac ==
    \E c \in Inst :
        \/ bch2_dev_set_state(c)
        \/ DevEvacuateCall(c)
        \/ DevEvacuateData(c)
        \/ DevEvacuateMetadata(c)
        \/ DevEvacuateHasData(c)

SpecEvac == InitEvac /\ [][NextEvac]_vars

-----------------------------------------------------------------------------
(* SpecStop: bch2_fs_stop of an instance next to lookups that take and drop  *)
(* references, the emergency read-only and its queued work.                 *)

NextStop ==
    \/ \E uuid \in UUIDs : bch2_uuid_to_fs(uuid)
    \/ \E c \in Inst :
        \/ FsPut(c)
        \/ bch2_fs_start(c)
        \/ FsEmergencyReadOnly(c)
        \/ bch2_fs_read_only_work(c)
        \/ WritesDisabled(c)
        \/ \E t \in Threads : FsReadOnlyTeardown(c, t)
        \/ \E t \in Threads : FsReadOnlyFinish(c, t)
        \/ bch2_fs_stop(c)
        \/ FsOfflineListDel(c)
        \/ FsOfflineTeardown(c)
        \/ FsStopSync(c)
        \/ FsStopExit(c)

SpecStop == Init /\ [][NextStop]_vars

-----------------------------------------------------------------------------
(* SpecFree: the steps of bch2_dev_remove next to readers of c->devs[]       *)

NextFree ==
    \E c \in Inst :
        \/ \E i \in Slot : \/ DevRcuRead(c, i)
                            \/ DevRcuGetRef(c, i)
                            \/ DevRcuUnlock(c, i)
                            \/ DevRefPut(c, i)
        \/ DevRemoveClear(c)
        \/ DevStopSynchronizeRcu(c)
        \/ DevStopDrain(c)
        \/ DevRemoveFree(c)

SpecFree == InitEvac /\ [][NextFree]_vars

-----------------------------------------------------------------------------
(* SpecRoDev: a started instance goes read-only and read-write again while   *)
(* devices are brought online, added, taken offline and change their         *)
(* membership state.                                                         *)

NextRoDev ==
    \E c \in Inst :
        \/ FsReadOnlyCall(c)
        \/ WritesDisabled(c)
        \/ \E t \in Threads : FsReadOnlyTeardown(c, t)
        \/ \E t \in Threads : FsReadOnlyFinish(c, t)
        \/ FsReadWriteCall(c)
        \/ bch2_dev_set_state(c)
        \/ DevAdd(c)
        \/ DevOnline(c)
        \/ DevOffline(c)

SpecRoDev == InitMem /\ [][NextRoDev]_vars

-----------------------------------------------------------------------------
(* SpecLock: two threads run the operations that take bch_fs_list_lock,      *)
(* state_lock and sb_lock of one instance, each operation as the sequence of *)
(* mutex_lock and mutex_unlock calls on its path through the source. The     *)
(* record of the call holds the owner of each lock and each thread's         *)
(* operation and position in it.                                             *)

Locks == {"bch_fs_list_lock", "state_lock", "sb_lock"}

LockThreads == {"t1", "t2"}

\* the order the claim states
LockRank(l) == CASE l = "bch_fs_list_lock" -> 1
                 [] l = "state_lock" -> 2
                 [] l = "sb_lock" -> 3

LockUnlock(l) == <<(<<"lock", l>>), (<<"unlock", l>>)>>

\* bch2_fs_alloc (547-554), bch2_fs_open (1718-1724) or
\* __bch2_fs_open_incremental (1791-1796), bch2_fs_may_start (1306-1317)
LockOpenPrefix ==
    LockUnlock("sb_lock") \o LockUnlock("sb_lock") \o LockUnlock("sb_lock")

\* __bch2_fs_start: state_lock (700), sb_lock (704-707), sb_lock (865-876),
\* unlock of state_lock (880)
LockStart ==
    <<(<<"lock", "state_lock">>)>> \o LockUnlock("sb_lock") \o LockUnlock("sb_lock")
        \o <<(<<"unlock", "state_lock">>)>>

\* bch2_fs_stop: state_lock (465-468), bch2_fs_offline: bch_fs_list_lock
\* (431-433), state_lock (451-453)
LockStop ==
    LockUnlock("state_lock") \o LockUnlock("bch_fs_list_lock") \o LockUnlock("state_lock")

\* state_lock around one section under sb_lock
LockStateThenSb ==
    <<(<<"lock", "state_lock">>)>> \o LockUnlock("sb_lock")
        \o <<(<<"unlock", "state_lock">>)>>

\* (variant: bch2_dev_add takes sb_lock before state_lock)
LockProgDevAddSbFirst ==
    [op \in {"dev_add"} |->
        <<(<<"lock", "sb_lock">>), (<<"lock", "state_lock">>),
          (<<"unlock", "sb_lock">>), (<<"unlock", "state_lock">>)>>]
    @@ [op \in {"dev_set_state"} |-> LockStateThenSb]
    @@ [op \in {"fs_open_incremental"} |->
          <<(<<"lock", "bch_fs_list_lock">>)>> \o LockOpenPrefix \o LockStart
              \o LockUnlock("state_lock") \o <<(<<"unlock", "bch_fs_list_lock">>)>>]

\* The lock and unlock calls of each operation, in the order of its path
LockProg ==
    [op \in {"fs_open"} |->
        LockOpenPrefix \o LockStart
            \o <<(<<"lock", "bch_fs_list_lock">>)>> \o LockUnlock("state_lock")
            \o <<(<<"unlock", "bch_fs_list_lock">>)>>]
    @@ [op \in {"fs_open_err"} |-> LockOpenPrefix \o LockStop]
    @@ [op \in {"fs_open_incremental"} |->
          <<(<<"lock", "bch_fs_list_lock">>)>> \o LockOpenPrefix \o LockStart
              \o LockUnlock("state_lock") \o <<(<<"unlock", "bch_fs_list_lock">>)>>]
    @@ [op \in {"fs_open_incremental_err"} |->
          <<(<<"lock", "bch_fs_list_lock">>)>> \o LockOpenPrefix
              \o <<(<<"unlock", "bch_fs_list_lock">>)>> \o LockStop]
    @@ [op \in {"fs_stop"} |-> LockStop]
    @@ [op \in {"read_only_work", "dev_set_state", "dev_remove", "dev_online"} |->
          LockStateThenSb]
    @@ [op \in {"dev_add"} |->
          <<(<<"lock", "state_lock">>), (<<"lock", "sb_lock">>),
            (<<"unlock", "sb_lock">>), (<<"unlock", "state_lock">>)>>]
    @@ [op \in {"dev_offline"} |-> LockUnlock("state_lock")]

LockState == last.val

\* the step thread t is at, <<"none", "none">> when it is in no operation or
\* past the last step
LockNext(t) ==
    LET th == LockState.th[t]
    IN  IF th.op # "none" /\ th.pc <= Len(LockProg[th.op])
        THEN LockProg[th.op][th.pc]
        ELSE <<"none", "none">>

LockHeld(t) == {l \in Locks : LockState.owner[l] = t}

InitLock ==
    /\ fs = [c \in Inst |-> IF c = 1 THEN MemFs ELSE NoFs]
    /\ bch_fs_list = {}
    /\ panic = FALSE
    /\ last = Call("locks", 1,
                   [owner |-> [l \in Locks |-> "none"],
                    th |-> [t \in LockThreads |-> [op |-> "none", pc |-> 1]]])

LockCall(t) ==
    /\ LockState.th[t].op = "none"
    /\ \E op \in DOMAIN LockProg :
          last' = [last EXCEPT !.val.th[t] = [op |-> op, pc |-> 1]]
    /\ UNCHANGED <<fs, bch_fs_list, panic>>

\* mutex_lock: blocks while the mutex has an owner (the caller included)
LockAcquire(t) ==
    /\ LockNext(t)[1] = "lock"
    /\ LockState.owner[LockNext(t)[2]] = "none"
    /\ last' = [last EXCEPT !.val.owner[LockNext(t)[2]] = t,
                            !.val.th[t].pc = @ + 1]
    /\ UNCHANGED <<fs, bch_fs_list, panic>>

LockRelease(t) ==
    /\ LockNext(t)[1] = "unlock"
    /\ last' = [last EXCEPT !.val.owner[LockNext(t)[2]] = "none",
                            !.val.th[t].pc = @ + 1]
    /\ UNCHANGED <<fs, bch_fs_list, panic>>

LockReturn(t) ==
    /\ LockState.th[t].op # "none"
    /\ LockNext(t)[1] = "none"
    /\ last' = [last EXCEPT !.val.th[t] = [op |-> "none", pc |-> 1]]
    /\ UNCHANGED <<fs, bch_fs_list, panic>>

NextLock ==
    \E t \in LockThreads :
        \/ LockCall(t)
        \/ LockAcquire(t)
        \/ LockRelease(t)
        \/ LockReturn(t)

SpecLock == InitLock /\ [][NextLock]_vars

-----------------------------------------------------------------------------
(* SpecRef: bch2_fs_start and bch2_fs_read_write with the I/O references     *)
(* their member loops take and drop, on an instance whose devices are online *)
(* with live I/O references, while I/O paths hold references of their own.   *)

InitRef ==
    /\ \E mi \in [Slot -> MemberStates], initialized \in BOOLEAN :
          fs = [c \in Inst |->
                  IF c = 1
                  THEN [OpenedFs("A", DefaultReplicas,
                                 [DefaultOpts EXCEPT !.nostart = TRUE],
                                 initialized, TRUE, mi, Slot)
                          EXCEPT !.io_ref = [i \in Slot |-> 1],
                                 !.io_dead = [i \in Slot |-> FALSE]]
                  ELSE NoFs]
    /\ bch_fs_list = {}
    /\ panic = FALSE
    /\ last = NoCall

\* bch2_fs_start(c)
FsStartRefs(c) ==
    /\ UserMay(c)
    /\ fs[c].state = "STARTING"
    /\ \E arg \in StartInputs(fs[c]) :
          LET x == [__bch2_fs_start(fs[c], arg[1], arg[2])
                      EXCEPT !.io_ref = StartIoRefs(fs[c], arg[1]).io_ref]
              r == StartRet(fs[c], arg[1], arg[2])
          IN  IF r = "NULL" THEN StartReturn(c, x)
              ELSE /\ Upd(c, x)
                   /\ last' = Call("start", c, CallErr(r))
                   /\ UNCHANGED bch_fs_list
    /\ UNCHANGED panic

\* mutex_lock(&c->state_lock); bch2_fs_read_write(c); mutex_unlock
FsReadWriteRefs(c) ==
    /\ UserMay(c)
    /\ \E fail \in ReadWriteInputs(fs[c]) :
          /\ Upd(c, [bch2_fs_read_write(fs[c], fail)
                       EXCEPT !.io_ref = ReadWriteIoRefs(fs[c], fail).io_ref])
          /\ last' = Call("read_write", c, ReadWriteRet(fs[c], fail))
    /\ UNCHANGED <<bch_fs_list, panic>>

NextRef ==
    \E c \in Inst :
        \/ FsStartRefs(c)
        \/ FsReadWriteRefs(c)
        \/ FsReadOnlyCall(c)
        \/ WritesDisabled(c)
        \/ \E t \in Threads : FsReadOnlyTeardown(c, t)
        \/ \E t \in Threads : FsReadOnlyFinish(c, t)
        \/ \E i \in Slot : IoGet(c, i) \/ IoPut(c, i)

SpecRef == InitRef /\ [][NextRef]_vars

-----------------------------------------------------------------------------
(* SpecOpen: bch2_fs_open and __bch2_fs_open_incremental from their call of  *)
(* bch2_fs_may_start on, for every membership of the superblock, every set   *)
(* of attached devices and either answer of bch2_have_enough_devs, which the *)
(* record of the call holds until bch2_fs_may_start has used it.             *)

InitOpen ==
    /\ \E mi \in [Slot -> MemberStates \cup {"none"}], nostart \in BOOLEAN,
          caller \in {"may_start", "inc_may_start"} :
          \E online \in (SUBSET {i \in Slot : mi[i] # "none"}) \ {{}} :
             fs = [c \in Inst |->
                     IF c = 1
                     THEN [OpenedFs("A", DefaultReplicas,
                                    [DefaultOpts EXCEPT !.nostart = nostart],
                                    TRUE, TRUE, mi, online)
                             EXCEPT !.pc_open = caller]
                     ELSE NoFs]
    /\ bch_fs_list = {}
    /\ panic = FALSE
    /\ \E enough \in BOOLEAN : last = Call("have_enough_devs", 1, enough)

\* bch2_fs_open, 1726-1730: bch2_fs_may_start and the test of nostart
FsOpenMayStart(c) ==
    /\ Live(c)
    /\ fs[c].pc_open = "may_start"
    /\ IF ~bch2_fs_may_start(fs[c], last.val)
       THEN /\ Upd(c, OpenFail(fs[c]))
            /\ last' = Call("open", c, "insufficient devices")
       ELSE /\ Upd(c, [fs[c] EXCEPT !.pc_open =
                                       IF fs[c].opts.nostart THEN "online" ELSE "start"])
            /\ UNCHANGED last
    /\ UNCHANGED <<bch_fs_list, panic>>

\* bch2_fs_open, 1731-1734: __bch2_fs_start
FsOpenStart(c) ==
    /\ Live(c)
    /\ fs[c].pc_open = "start"
    /\ \E arg \in StartInputs(fs[c]) :
          LET y == __bch2_fs_start(fs[c], arg[1], arg[2])
              r == StartRet(fs[c], arg[1], arg[2])
          IN  IF r = "NULL"
              THEN /\ Upd(c, [y EXCEPT !.pc_open = "online"])
                   /\ last' = NoCall
              ELSE /\ Upd(c, OpenFail(y))
                   /\ last' = Call("open", c, CallErr(r))
    /\ UNCHANGED <<bch_fs_list, panic>>

\* __bch2_fs_open_incremental, 1798: the test of nostart and
\* bch2_fs_may_start, then __bch2_fs_online when the instance is not started
FsOpenIncrementalMayStart(c) ==
    /\ Live(c)
    /\ fs[c].pc_open = "inc_may_start"
    /\ IF ~fs[c].opts.nostart /\ bch2_fs_may_start(fs[c], last.val)
       THEN /\ Upd(c, [fs[c] EXCEPT !.pc_open = "inc_start"])
            /\ UNCHANGED <<last, bch_fs_list, panic>>
       ELSE IncrementalOnline(c, [fs[c] EXCEPT !.pc_open = "idle"], TRUE)

\* __bch2_fs_open_incremental, 1799-1808: __bch2_fs_start, __bch2_fs_online
FsOpenIncrementalStart(c) ==
    /\ Live(c)
    /\ fs[c].pc_open = "inc_start"
    /\ \E arg \in StartInputs(fs[c]) :
          LET y == [__bch2_fs_start(fs[c], arg[1], arg[2]) EXCEPT !.pc_open = "idle"]
              r == StartRet(fs[c], arg[1], arg[2])
          IN  IF r = "NULL"
              THEN IncrementalOnline(c, y, TRUE)
              ELSE IncrementalErr(c, y, TRUE, CallErr(r))

NextOpen ==
    \E c \in Inst :
        \/ FsOpenMayStart(c)
        \/ FsOpenStart(c)
        \/ FsOpenOnline(c)
        \/ FsOpenIncrementalMayStart(c)
        \/ FsOpenIncrementalStart(c)

SpecOpen == InitOpen /\ [][NextOpen]_vars

-----------------------------------------------------------------------------
(* SpecSize: bch2_dev_alloc is entered for a device of any bucket count up   *)
(* to MaxBuckets and sizes its reserves; the record of the call holds the    *)
(* bucket count and the sizes.                                               *)

InitSize ==
    /\ fs = [c \in Inst |-> NoFs]
    /\ bch_fs_list = {}
    /\ panic = FALSE
    /\ \E nbuckets \in 0..MaxBuckets : last = Call("dev_alloc_enter", nbuckets, "none")

DevAllocSize ==
    /\ last.op = "dev_alloc_enter"
    /\ last' = Call("dev_alloc", last.c, DevReserves(last.c))
    /\ UNCHANGED <<fs, bch_fs_list, panic>>

NextSize == DevAllocSize

SpecSize == InitSize /\ [][NextSize]_vars

-----------------------------------------------------------------------------
(* SpecOff: bch2_dev_offline and bch2_dev_remove with __bch2_dev_offline     *)
(* step by step, on a started instance whose members are all online, next    *)
(* to I/O that takes and drops references on ca->io_ref.                     *)

InitOff ==
    /\ \E mi \in [Slot -> MemberStates] :
          fs = [c \in Inst |->
                  IF c = 1
                  THEN [__bch2_fs_start(
                            OpenedFs("A", DefaultReplicas,
                                     [DefaultOpts EXCEPT !.nostart = TRUE],
                                     TRUE, TRUE, mi, Slot),
                            NoFail, "-EINVAL")
                          EXCEPT !.io_ref = [i \in Slot |-> 1],
                                 !.io_dead = [i \in Slot |-> FALSE]]
                  ELSE NoFs]
    /\ bch_fs_list = {1}
    /\ panic = FALSE
    /\ last = NoCall

NextOff ==
    \E c \in Inst :
        \/ \E i \in Slot : IoGet(c, i) \/ IoPut(c, i)
        \/ DevOfflineBegin(c)
        \/ DevOfflineKill(c)
        \/ DevOfflineWait(c)
        \/ DevOfflineFree(c)
        \/ DevStopSynchronizeRcu(c)
        \/ DevStopDrain(c)
        \/ DevRemoveFree(c)

SpecOff == InitOff /\ [][NextOff]_vars

\* The scheduler runs a thread that can run, an I/O that holds a reference
\* completes, and a wait whose condition holds returns
FairnessOff ==
    \A c \in Inst :
        /\ \A i \in Slot : WF_vars(IoPut(c, i))
        /\ WF_vars(DevOfflineKill(c))
        /\ WF_vars(DevOfflineWait(c))
        /\ WF_vars(DevOfflineFree(c))
        /\ WF_vars(DevStopSynchronizeRcu(c))
        /\ WF_vars(DevStopDrain(c))
        /\ WF_vars(DevRemoveFree(c))

SpecOffFair == SpecOff /\ FairnessOff

-----------------------------------------------------------------------------
(* SpecRw: bch2_fs_read_write statement by statement, on an instance whose   *)
(* members have any membership state, with bch2_fs_read_only to take it back *)
(* to RO and writes in flight.                                               *)

NextRw ==
    \E c \in Inst :
        \/ FsReadWriteBegin(c)
        \/ FsReadWriteStep(c)
        \/ FsReadOnlyCall(c)
        \/ WriteStart(c)
        \/ WriteDone(c)
        \/ WritesDisabled(c)
        \/ \E t \in Threads : FsReadOnlyTeardown(c, t)
        \/ \E t \in Threads : FsReadOnlyFinish(c, t)

SpecRw == InitEvac /\ [][NextRw]_vars

-----------------------------------------------------------------------------
(* SpecTd: bch2_fs_read_only with __bch2_fs_read_only statement by statement,*)
(* called by the user and by the emergency read-only work, with writes in    *)
(* flight.                                                                   *)

NextTd ==
    \E c \in Inst :
        \/ FsReadWriteCall(c)
        \/ FsReadOnlyCall(c)
        \/ FsEmergencyReadOnly(c)
        \/ bch2_fs_read_only_work(c)
        \/ WriteStart(c)
        \/ WriteDone(c)
        \/ WritesDisabled(c)
        \/ \E t \in Threads : FsReadOnlyTeardownStep(c, t)
        \/ \E t \in Threads : FsReadOnlyFinish(c, t)

SpecTd == InitEvac /\ [][NextTd]_vars

-----------------------------------------------------------------------------
(* SpecEro: an instance that is started by bch2_fs_start and on which        *)
(* bch2_fs_emergency_read_only is called at any moment, before the start     *)
(* included; nobody else calls bch2_fs_read_only or bch2_fs_read_write.      *)

NextEro ==
    \E c \in Inst :
        \/ bch2_fs_start(c)
        \/ FsEmergencyReadOnly(c)
        \/ bch2_fs_read_only_work(c)
        \/ WriteStart(c)
        \/ WriteDone(c)
        \/ WritesDisabled(c)
        \/ \E t \in Threads : FsReadOnlyTeardown(c, t)
        \/ \E t \in Threads : FsReadOnlyFinish(c, t)

SpecEro == Init /\ [][NextEro]_vars

-----------------------------------------------------------------------------
(* Properties *)

LiveInst == {c \in Inst : fs[c].alloc = "live"}

\* The number of members in state RW, as bch2_dev_state_allowed counts them
NrRw(x) == Cardinality({j \in Members(x) : x.devs[j].mi_state = "RW"})

\* The replica count a move from RW to RO has to leave writable
Required(x, flags) ==
    Max(IF BCH_FORCE_IF_METADATA_DEGRADED \in flags
        THEN x.replicas.metadata_replicas_required
        ELSE x.replicas.metadata_replicas,
        IF BCH_FORCE_IF_DATA_DEGRADED \in flags
        THEN x.replicas.data_replicas_required
        ELSE x.replicas.data_replicas)

\* C1: for a member that is RW, bch2_dev_state_allowed answers a move to RO
\* with true exactly when the other RW members number at least the required
\* replica count.
C1_GuardIffEnoughRw ==
    \A c \in LiveInst : \A i \in Members(fs[c]), flags \in ForceFlags :
        fs[c].devs[i].mi_state = "RW" =>
            (bch2_dev_state_allowed(fs[c], i, "RO", flags, TRUE)
                <=> NrRw(fs[c]) - 1 >= Required(fs[c], flags))

RwErrs ==
    {"error starting allocator thread", "error starting btree GC thread",
     "error starting moving GC thread", "error starting tiering thread"}

C2_FailedReadWriteStep(c) ==
    (FsReadWriteCall(c) /\ last'.val # "NULL") =>
        /\ last'.val \in RwErrs
        /\ ~AnyWorker(fs'[c]) /\ ~AnyInPool(fs'[c])
        /\ fs'[c].state = fs[c].state
        /\ fs[c].state \in {"RO", "STARTING"}

C2_FailedReadWriteInStart(c) ==
    (fs[c].state = "STARTING" /\ ~fs[c].opts.read_only) =>
        \A fail \in RwFails(fs[c]) :
            LET y == StartRecovery(fs[c], fail)
                z == bch2_fs_read_write(y, fail)
            IN  /\ ReadWriteRet(y, fail) \in RwErrs
                /\ ~AnyWorker(z) /\ ~AnyInPool(z)
                /\ z.state = "STARTING"

\* C2: when a worker of bch2_fs_read_write does not start, the call returns
\* one of its error strings and leaves no allocator, gc, moving gc or tiering
\* thread running, no device in the allocation pool, and c->state as it was
\* (RO or STARTING); the same holds of the bch2_fs_read_write that
\* __bch2_fs_start calls.
C2_ReadWriteRollsBack ==
    [][\A c \in LiveInst :
          C2_FailedReadWriteStep(c) /\ C2_FailedReadWriteInStart(c)]_vars

C2_Witness ==
    \E c \in LiveInst :
        /\ last = Call("read_write", c, "error starting moving GC thread")
        /\ fs[c].state = "RO"

StateWalk ==
    {<<"STARTING", "RO">>, <<"STARTING", "RW">>, <<"RO", "RW">>, <<"RW", "RO">>}
    \cup {<<s, "STOPPING">> : s \in FsStates}

\* C3: every change of c->state is STARTING->RO, STARTING->RW, RO->RW, RW->RO
\* or a change to STOPPING, and a state of STOPPING never changes.
C3_StateMachine ==
    [][\A c \in Inst :
          (fs[c].alloc = "live" /\ fs'[c].alloc = "live"
           /\ fs'[c].state # fs[c].state)
              => <<fs[c].state, fs'[c].state>> \in StateWalk]_vars

C3_Witness ==
    \E c \in LiveInst :
        /\ fs[c].state = "STOPPING"
        /\ fs[c].teardowns = 1
        /\ fs[c].sb_initialized /\ fs[c].sb_clean

Allocated == {c \in Inst : fs[c].alloc # "none"}

UniqueUuid ==
    \A c, d \in bch_fs_list : fs[c].uuid = fs[d].uuid => c = d

\* A bch2_fs_open_incremental whose UUID is in the list works on the listed
\* instance and allocates none; unless it returns an error the device is
\* online in that instance afterwards.
C4_IncrementalAttaches ==
    \A c \in Inst :
        (/\ last' = Call("open_incremental", c, last'.val)
         /\ __bch2_uuid_to_fs(fs'[c].uuid) # {})
            => /\ Allocated' = Allocated
               /\ c \in bch_fs_list
               /\ last'.val \in {"NULL", "BUG"} =>
                     \E i \in Slot : fs'[c].devs[i].online /\ ~fs[c].devs[i].online

\* C4: bch_fs_list never holds two instances with one UUID, and a
\* bch2_fs_open_incremental for a UUID that is in the list leaves the set of
\* allocated instances as it was: the device goes to the listed instance.
C4_OneInstancePerUuid ==
    UniqueUuid /\ [][UniqueUuid' /\ C4_IncrementalAttaches]_vars

C4_Witness ==
    \E c \in bch_fs_list :
        /\ last = Call("open_incremental", c, "NULL")
        /\ \A i \in Slot : fs[c].devs[i].online
        /\ \E d \in LiveInst : d # c /\ fs[d].uuid = fs[c].uuid

\* C5: when bch2_fs_open or bch2_fs_open_incremental has returned an error
\* of __bch2_fs_start, the instance whose startup failed is not in
\* bch_fs_list.
C5_FailedStartNotRegistered ==
    (last.op \in {"open", "open_incremental"} /\ last.val = StartFailure)
        => last.c \notin bch_fs_list

FullyStopped(x) == x.state = "RO" /\ ~AnyWorker(x)

\* C6: once bch2_fs_emergency_read_only has been called on an instance in
\* state RW, the instance eventually is RO with every worker stopped (or is
\* being stopped by bch2_fs_stop).
C6_EmergencyReachesRO ==
    \A c \in Inst :
        (fs[c].alloc = "live" /\ fs[c].state = "RW"
         /\ last = Call("emergency_read_only", c, "true"))
            ~> (FullyStopped(fs[c]) \/ fs[c].state = "STOPPING"
                \/ fs[c].alloc # "live" \/ panic)

InFlightReadOnly(x) ==
    x.state = "RW" /\ x.pc["user"] \in {"ro_wait1", "ro_wait2"}

\* C7: a bch2_fs_read_only in flight on an RW instance on which
\* bch2_fs_emergency_read_only has been called returns, with c->state RO, the
\* journal halted and __bch2_fs_read_only executed once.
C7_ConcurrentEmergency ==
    \A c \in Inst :
        (fs[c].alloc = "live" /\ InFlightReadOnly(fs[c])
         /\ TestBit(fs[c], "EMERGENCY_RO"))
            ~> (/\ fs[c].alloc = "live"
                /\ fs[c].state = "RO"
                /\ fs[c].journal_error
                /\ fs[c].pc = [t \in Threads |-> "idle"]
                /\ fs[c].teardowns = 1)

C7_Witness ==
    \E c \in LiveInst :
        /\ InFlightReadOnly(fs[c])
        /\ fs[c].pc["user"] = "ro_wait2"
        /\ TestBit(fs[c], "EMERGENCY_RO")
        /\ fs[c].nr_writes > 0

\* The queued read-only work of the calls made so far has run to its end
EmergencyWorkDone(x) ==
    /\ Len(x.ero_rets) >= 1
    /\ ~x.read_only_work
    /\ x.pc["work"] = "idle"

\* C8: of the calls of bch2_fs_emergency_read_only on an instance the first
\* returns true and every later one false, and the read-only work they queue
\* executes the teardown once: never a second time, and an instance that is
\* RW after the work has run has been torn down by it.
C8_FirstCallWinsOneTeardown ==
    \A c \in LiveInst :
        /\ \A k \in 1..Len(fs[c].ero_rets) : fs[c].ero_rets[k] = (k = 1)
        /\ fs[c].work_teardowns <= 1
        /\ (EmergencyWorkDone(fs[c]) /\ fs[c].state = "RW")
              => fs[c].work_teardowns = 1

\* C9: bch2_fs_read_only on an instance in state RO changes nothing of the
\* instance or the registry, and bch2_fs_read_write on an instance in state
\* RW changes nothing and returns NULL.
C9_Idempotent ==
    [][\A c \in Inst :
          /\ (FsReadOnlyCall(c) /\ fs[c].state = "RO")
                => (UNCHANGED <<fs, bch_fs_list>> /\ last'.val = "early")
          /\ (FsReadWriteCall(c) /\ fs[c].state = "RW")
                => (UNCHANGED <<fs, bch_fs_list>> /\ last'.val = "NULL")]_vars

C9_Witness ==
    \E c \in LiveInst :
        /\ last = Call("read_only", c, "early")
        /\ fs[c].state = "RO"
        /\ ~TestBit(fs[c], "ERROR")

Workers(x) ==
    {<<"allocator", i>> : i \in {j \in Slot : x.devs[j].allocator}}
    \cup {<<"moving_gc", i>> : i \in {j \in Slot : x.devs[j].moving_gc}}
    \cup (IF x.gc_thread THEN {<<"gc", 0>>} ELSE {})
    \cup (IF x.tiering THEN {<<"tiering", 0>>} ELSE {})

\* C10: once BCH_FS_ERROR is set it stays set, no step makes the instance RW
\* or starts a worker, and no step marks the superblock clean.
C10_ErrorIsSticky ==
    [][\A c \in Inst :
          (fs[c].alloc = "live" /\ fs'[c].alloc = "live" /\ TestBit(fs[c], "ERROR"))
              => /\ TestBit(fs'[c], "ERROR")
                 /\ (fs'[c].state = "RW" => fs[c].state = "RW")
                 /\ Workers(fs'[c]) \subseteq Workers(fs[c])
                 /\ (fs'[c].sb_clean => fs[c].sb_clean)]_vars

\* What bch2_fs_read_only leaves when it returns from the step of thread t
ReadOnlyReturn(c, t) == bch2_fs_read_only_finish(fs[c], t)

\* C11: a bch2_fs_read_only that has run its teardown returns with ERROR clear
\* and c->state RO, and with the superblock marked clean exactly when the
\* journal has no error or the superblock was clean before.
C11_CleanUnlessJournalError ==
    [][\A c \in Inst, t \in Threads :
          FsReadOnlyFinish(c, t) =>
              /\ ~TestBit(fs[c], "ERROR")
              /\ ReadOnlyReturn(c, t).state = "RO"
              /\ ReadOnlyReturn(c, t).sb_clean
                    = (~fs[c].journal_error \/ fs[c].sb_clean)
              /\ (~fs[c].in_start => /\ fs'[c].state = "RO"
                                     /\ fs'[c].sb_clean = ReadOnlyReturn(c, t).sb_clean)]_vars

C11_Witness ==
    \E c \in LiveInst :
        /\ last = Call("read_only", c, "done")
        /\ fs[c].state = "RO" /\ fs[c].sb_clean
        /\ fs[c].journal = "stopped" /\ ~fs[c].journal_error
        /\ fs[c].teardowns = 1

\* C11 as stated: with ERROR clear, the superblock is marked clean on return.
C11_CleanWheneverNoError ==
    [][\A c \in Inst, t \in Threads :
          (FsReadOnlyFinish(c, t) /\ ~TestBit(fs[c], "ERROR"))
              => /\ ReadOnlyReturn(c, t).sb_clean
                 /\ ReadOnlyReturn(c, t).state = "RO"]_vars


\* C12: a move of an RW member to RO that would leave fewer RW members than
\* the required replica count (two RW members, two replicas) is answered by
\* bch2_dev_set_state with -EINVAL and leaves the instance as it was.
C12_RefusedWithoutSideEffect ==
    \A c \in LiveInst : \A i \in Members(fs[c]), flags \in ForceFlags :
        (fs[c].devs[i].mi_state = "RW" /\ NrRw(fs[c]) - 1 < Required(fs[c], flags))
            => /\ DevSetStateRet(fs[c], i, "RO", flags, TRUE, "none") = "-EINVAL"
               /\ __bch2_dev_set_state(fs[c], i, "RO", flags, TRUE, "none") = fs[c]


\* C13: while c->state is RW, the members in state RW number at least
\* data_replicas and at least metadata_replicas.
C13_RwHasEnoughRwMembers ==
    \A c \in LiveInst :
        fs[c].state = "RW" =>
            /\ NrRw(fs[c]) >= fs[c].replicas.data_replicas
            /\ NrRw(fs[c]) >= fs[c].replicas.metadata_replicas


\* C14: when bch2_fs_start has returned NULL, c->state is RO if the read_only
\* option is set and RW otherwise, and the superblock is initialized and not
\* clean.
C14_StartedStateAndSuperblock ==
    \A c \in LiveInst :
        last = Call("start", c, "NULL") =>
            /\ fs[c].state = (IF fs[c].opts.read_only THEN "RO" ELSE "RW")
            /\ fs[c].sb_initialized /\ ~fs[c].sb_clean


\* C15: whichever step of __bch2_fs_start fails, the call returns one of its
\* error strings and leaves BCH_FS_ERROR set, c->state STARTING (not RW) and
\* the initialized flag of the superblock as it was.
C15_FailedStartSetsError ==
    [][\A c \in Inst :
          (last' = Call("start", c, last'.val) /\ last'.val # "NULL") =>
                /\ last'.val = StartFailure
                /\ TestBit(fs'[c], "ERROR")
                /\ fs'[c].state = "STARTING"
                /\ fs'[c].sb_initialized = fs[c].sb_initialized]_vars

C15_Witness ==
    \E c \in LiveInst :
        /\ last = Call("start", c, StartFailure)
        /\ TestBit(fs[c], "ERROR")
        /\ fs[c].state = "STARTING"
        /\ fs[c].journal = "running"
        /\ ~fs[c].sb_initialized



\* The conditions under which the remove is legal: the member is not RW, the
\* guard lets it go to FAILED, bch2_flag_data_bad succeeded, no data is left
RemoveLegal(x, i, arg) ==
    /\ x.devs[i].mi_state # "RW"
    /\ bch2_dev_state_allowed(x, i, "FAILED", {}, arg.enough)
    /\ arg.flag_ret = "0"
    /\ ~arg.data

\* C16: bch2_dev_remove clears the slot, frees the record and zeroes the UUID
\* of the slot exactly when the member is not RW, the guard allows FAILED,
\* bch2_flag_data_bad succeeded and bch2_dev_has_data found nothing; every
\* other call returns an error and leaves device table and superblock alone.
C16_RemoveOnlyAfterChecks ==
    \A c \in LiveInst : \A i \in Members(fs[c]) :
        \A arg \in DevRemoveInputs(fs[c], i) :
            IF RemoveLegal(fs[c], i, arg)
            THEN /\ DevRemoveRet(fs[c], i, arg) = "0"
                 /\ ~bch2_dev_remove(fs[c], i, arg).devs[i].present
                 /\ bch2_dev_remove(fs[c], i, arg).sb.uuid[i] = ZeroUuid
            ELSE /\ DevRemoveRet(fs[c], i, arg) # "0"
                 /\ bch2_dev_remove(fs[c], i, arg).devs = fs[c].devs
                 /\ bch2_dev_remove(fs[c], i, arg).sb = fs[c].sb
                 /\ bch2_dev_remove(fs[c], i, arg).disk = fs[c].disk


\* The instance after a bch2_dev_add that returned 0 and, for a device that
\* came in as RW, a bch2_dev_set_state of the new member to new_state
AddedThenSet(x, add, new_state) ==
    IF add.mi_state = "RW"
    THEN __bch2_dev_set_state(bch2_dev_add(x, add), FirstFreeSlot(x),
                              new_state, {}, TRUE, "none")
    ELSE bch2_dev_add(x, add)

\* C17: a bch2_dev_add that succeeds followed by a bch2_dev_remove of the new
\* member that succeeds (member not RW, no data on it) leaves the occupied
\* slots of c->devs[] as they were before the add, and the UUID of the slot
\* zero in the superblock, so that the next add finds the slot free.
C17_AddRemoveRoundTrip ==
    \A c \in LiveInst : \A add \in DevAddInputs(fs[c]) :
        \A new_state \in MemberStates \ {"RW"} :
            DevAddRet(fs[c], add) = "0" =>
                \A rem \in DevRemoveInputs(AddedThenSet(fs[c], add, new_state),
                                           FirstFreeSlot(fs[c])) :
                    RemoveLegal(AddedThenSet(fs[c], add, new_state),
                                FirstFreeSlot(fs[c]), rem) =>
                        LET z == bch2_dev_remove(AddedThenSet(fs[c], add, new_state),
                                                 FirstFreeSlot(fs[c]), rem)
                        IN  /\ Members(z) = Members(fs[c])
                            /\ z.sb.uuid[FirstFreeSlot(fs[c])] = ZeroUuid
                            /\ z.disk.uuid[FirstFreeSlot(fs[c])] = ZeroUuid
                            /\ FirstFreeSlot(fs[c]) \in FreeSlots(z)

\* A device was added to the free slot and removed again
C17_Witness ==
    \E c \in LiveInst :
        /\ last = Call("dev_remove", c, "0")
        /\ fs[c].sb.nr_devices = NrDevs
        /\ fs[c].sb.uuid[NrDevs - 1] = ZeroUuid
        /\ fs[c].disk.uuid[NrDevs - 1] = ZeroUuid
        /\ Members(fs[c]) = Slot \ {NrDevs - 1}


\* C18: a bch2_dev_add that returns an error leaves the instance as it was:
\* the member table and nr_devices of the image and of the written
\* superblock, the device table c->devs[] and the running workers.
C18_FailedAddLeavesPriorState ==
    [][\A c \in Inst :
          (last' = Call("dev_add", c, last'.val) /\ last'.val # "0")
              => /\ fs'[c].sb = fs[c].sb
                 /\ fs'[c].disk = fs[c].disk
                 /\ fs'[c].devs = fs[c].devs
                 /\ fs'[c].tiering = fs[c].tiering]_vars


\* C19: bch2_dev_online of a device whose slot has a block device attached
\* already returns an error and changes nothing in the instance: the handle
\* and io_ref of the slot, the superblock image, the allocation pool and the
\* journal's write delay.
C19_DuplicateOnlineMutatesNothing ==
    \A c \in LiveInst : \A i \in Members(fs[c]) :
        \A arg \in DevOnlineInputs(fs[c], i) :
            (fs[c].devs[i].online /\ ~arg.refused)
                => /\ DevOnlineCallRet(fs[c], i, arg) # "0"
                   /\ bch2_dev_online(fs[c], i, arg).devs = fs[c].devs
                   /\ bch2_dev_online(fs[c], i, arg).sb = fs[c].sb
                   /\ bch2_dev_online(fs[c], i, arg).write_delay_ms
                        = fs[c].write_delay_ms


\* The migration of bch2_dev_evacuate is running, or its last check
Evacuating(x) == x.pc_evac \in {"data", "metadata", "has_data"}

\* C20: bch2_dev_evacuate of a member that is RW returns -EINVAL and starts no
\* migration, and while bch2_move_data_off_device,
\* bch2_move_metadata_off_device and the last bch2_dev_has_data run, with
\* bch2_dev_set_state calls in between, the member is never RW.
C20_NoEvacuationOfRwDevice ==
    \A c \in LiveInst :
        /\ \A i \in Members(fs[c]) :
              (fs[c].devs[i].mi_state = "RW" /\ ~Evacuating(fs[c]))
                  => ~Evacuating(bch2_dev_evacuate_enter(fs[c], i))
        /\ Evacuating(fs[c]) => fs[c].devs[fs[c].evac_dev].mi_state # "RW"

\* A bch2_dev_set_state call has returned while the metadata of a member is
\* being migrated
C20_Witness ==
    \E c \in LiveInst :
        /\ fs[c].pc_evac = "metadata"
        /\ last = Call("dev_set_state", c, "0")


\* C21: bch2_fs_exit frees the device records and the instance only when
\* the instance is out of bch_fs_list, no worker runs, the read-only work is
\* neither queued nor running and no caller holds a reference on c->cl; and
\* bch2_uuid_to_fs returns only instances that are in bch_fs_list.
C21_FreedOnlyWhenQuiescent ==
    [][\A c \in Inst :
          /\ (fs[c].alloc = "live" /\ fs'[c].alloc = "freed")
                => /\ c \notin bch_fs_list
                   /\ ~AnyWorker(fs[c]) /\ ~AnyInPool(fs[c])
                   /\ ~FsExitCancel(fs[c]).pd_controllers_update
                   /\ ~FsExitCancel(fs[c]).read_only_work
                   /\ \A t \in Threads : fs[c].pc[t] = "idle"
                   /\ fs[c].cl_refs = 0
          /\ last' = Call("uuid_to_fs", c, "found")
                => c \in bch_fs_list /\ fs[c].alloc = "live"]_vars

\* bch2_fs_stop has returned: the instance is freed and out of bch_fs_list
C21_Witness ==
    \E c \in Inst :
        /\ last = Call("stop", c, "done")
        /\ fs[c].alloc = "freed"
        /\ c \notin bch_fs_list


\* C22: bch2_dev_remove clears the slot of c->devs[] first, then lets the
\* read sections that loaded the old pointer end, then drains the references
\* on ca->ref, and only then frees the record: when bch2_dev_free runs no read
\* section holds the pointer and no reference is held, and from the clearing
\* of the slot on no new reader gets to the record.
C22_FreedAfterReadersLeft ==
    [][\A c \in Inst :
          /\ (fs[c].pc_remove = "drained" /\ fs'[c].pc_remove = "idle")
                => /\ ~fs[c].devs[fs[c].remove_dev].present
                   /\ fs[c].dev_rcu[fs[c].remove_dev] = 0
                   /\ fs[c].dev_ref[fs[c].remove_dev] = 0
          /\ fs[c].pc_remove # "idle"
                => /\ fs'[c].dev_rcu[fs[c].remove_dev] <= fs[c].dev_rcu[fs[c].remove_dev]
                   /\ (fs[c].pc_remove # "cleared"
                          => fs'[c].dev_ref[fs[c].remove_dev]
                                <= fs[c].dev_ref[fs[c].remove_dev])]_vars

\* The slot has been cleared while a read section holds the old pointer and
\* a reference is held on the record
C22_Witness ==
    \E c \in LiveInst :
        /\ fs[c].pc_remove = "cleared"
        /\ ~fs[c].devs[fs[c].remove_dev].present
        /\ fs[c].dev_rcu[fs[c].remove_dev] > 0
        /\ fs[c].dev_ref[fs[c].remove_dev] > 0


\* What the functions that run under c->state_lock change: the state, the
\* device table and the workers of the instance
UnderStateLock(x) == <<x.state, x.devs, x.gc_thread, x.tiering>>

RwPooled(x) == \A i \in RwMembers(x) : x.devs[i].in_pool
RwAllocating(x) == \A i \in RwMembers(x) : x.devs[i].allocator
RwMovingGc(x) == \A i \in RwMembers(x) : x.devs[i].moving_gc

\* C24: in bch2_fs_read_write no allocator is started before every
\* read-write member's reserves are in the pool, the gc thread not before
\* every such allocator runs, no moving-gc worker before the gc thread, the
\* tiering worker not before every moving-gc worker, the rate-controller
\* update not before tiering, the write gate is not reopened before that
\* update is scheduled and only when the state was not STARTING, and the
\* state becomes RW only after all of it
C24_ReadWriteOrder ==
    [][\A c \in Inst :
        LET x == fs[c]
            y == fs'[c]
        IN  x.pc_rw # "idle" =>
              /\ (\E i \in Slot : ~x.devs[i].allocator /\ y.devs[i].allocator)
                    => RwPooled(x)
              /\ (~x.gc_thread /\ y.gc_thread) => RwPooled(x) /\ RwAllocating(x)
              /\ (\E i \in Slot : ~x.devs[i].moving_gc /\ y.devs[i].moving_gc)
                    => RwAllocating(x) /\ x.gc_thread
              /\ (~x.tiering /\ y.tiering) => x.gc_thread /\ RwMovingGc(x)
              /\ (~x.pd_controllers_update /\ y.pd_controllers_update)
                    => RwMovingGc(x) /\ x.tiering
              /\ (x.writes_dead /\ ~y.writes_dead)
                    => x.pd_controllers_update /\ x.state # "STARTING"
              /\ (x.state # "RW" /\ y.state = "RW")
                    => /\ RwPooled(x) /\ RwAllocating(x) /\ RwMovingGc(x)
                       /\ x.gc_thread /\ x.tiering /\ x.pd_controllers_update
                       /\ x.state = "RO" => ~x.writes_dead]_vars

\* A read-write from RO has started every worker of two read-write members
\* and reopened the gate, and has c->state = BCH_FS_RW left to do
C24_Witness ==
    \E c \in LiveInst :
        /\ fs[c].pc_rw = "state"
        /\ fs[c].state = "RO"
        /\ Cardinality(RwMembers(fs[c])) = NrDevs
        /\ RwPooled(fs[c]) /\ RwAllocating(fs[c]) /\ RwMovingGc(fs[c])
        /\ fs[c].gc_thread /\ fs[c].tiering /\ fs[c].pd_controllers_update
        /\ ~fs[c].writes_dead


\* A thread is in bch2_fs_read_only before its second wait
InTeardown(x) == \E t \in Threads : x.pc[t] = "ro_wait1"

\* The step stops a worker thread
StopsWorker(x, y) ==
    \/ x.tiering /\ ~y.tiering
    \/ x.gc_thread /\ ~y.gc_thread
    \/ \E i \in Slot : \/ x.devs[i].moving_gc /\ ~y.devs[i].moving_gc
                       \/ x.devs[i].allocator /\ ~y.devs[i].allocator

EmergencyReturned(c) ==
    \E r \in {"true", "false"} : last = Call("emergency_read_only", c, r)

\* C26: bch2_fs_emergency_read_only can be called and returns whoever holds
\* the state lock and wherever a transition stands; the call leaves the lock,
\* the position of every thread, the state and the workers as they were,
\* and returns with the journal halted and the read-only work queued
C26_EmergencyNeverBlocks ==
    /\ [](\A c \in Inst :
            (Live(c) /\ Len(fs[c].ero_rets) < MaxEroCalls)
               => ENABLED FsEmergencyReadOnly(c))
    /\ [][\A c \in Inst :
            EmergencyReturned(c)' =>
               /\ fs'[c].journal_error /\ fs'[c].read_only_work
               /\ fs'[c].state_lock = fs[c].state_lock
               /\ fs'[c].pc = fs[c].pc
               /\ fs'[c].state = fs[c].state
               /\ fs'[c].devs = fs[c].devs
               /\ fs'[c].gc_thread = fs[c].gc_thread
               /\ fs'[c].tiering = fs[c].tiering
               /\ fs'[c].teardowns = fs[c].teardowns
               /\ fs'[c].disk = fs[c].disk]_vars

\* The call returned while the user thread holds the state lock in
\* bch2_fs_read_only, waiting for a write that is in flight
C26_Witness ==
    \E c \in LiveInst :
        /\ EmergencyReturned(c)
        /\ fs[c].state_lock = "user"
        /\ fs[c].pc["user"] = "ro_wait1"
        /\ fs[c].nr_writes > 0
        /\ fs[c].journal_error /\ fs[c].read_only_work
        /\ fs[c].state = "RW"


\* The rank of bch2_initial_gc among the steps of __bch2_fs_start
InitialGcRank == StartRank([at |-> "initial_gc", dev |-> 0])

\* C27: a __bch2_fs_start that fails at bch2_initial_gc or before it, on an
\* existing or on a fresh filesystem, has started no allocator and has not
\* started the journal, and the allocation of journal buckets, the
\* allocation of tree roots, the start of the allocators and the journal
\* replay are steps that come after bch2_initial_gc
C27_InitialGcFirst ==
    \A c \in LiveInst :
        (UserMay(c) /\ fs[c].state = "STARTING") =>
           \A arg \in StartInputs(fs[c]) :
              LET x == fs[c]
                  y == __bch2_fs_start(x, arg[1], arg[2])
              IN  /\ StartRank(arg[1]) <= InitialGcRank =>
                        /\ y.journal = x.journal
                        /\ \A i \in Slot : y.devs[i].allocator = x.devs[i].allocator
                        /\ y.state = "STARTING" /\ TestBit(y, "ERROR")
                  /\ arg[1].at \in {"journal_alloc", "btree_root_alloc",
                                    "allocator_start", "journal_replay"}
                        => StartRank(arg[1]) > InitialGcRank
                  /\ (y.journal = "running" /\ x.journal # "running")
                        => StartRank(arg[1]) > InitialGcRank

\* bch2_fs_start has failed on an instance with read-write members before
\* any allocator or the journal was started
C27_Witness ==
    \E c \in LiveInst :
        /\ last = Call("start", c, StartFailure)
        /\ fs[c].state = "STARTING" /\ TestBit(fs[c], "ERROR")
        /\ RwMembers(fs[c]) # {}
        /\ RwPooled(fs[c])
        /\ \A i \in Slot : ~fs[c].devs[i].allocator
        /\ fs[c].journal # "running"


\* C28: no call of bch2_fs_open_incremental or bch2_fs_start enters
\* __bch2_fs_start on an instance whose state is not STARTING, so that
\* BUG_ON(c->state != BCH_FS_STARTING) never fires
C28_StartOnlyWhileStarting ==
    \A c \in Inst :
        /\ last # Call("open_incremental", c, "BUG")
        /\ last # Call("start", c, "BUG")


\* C29: the state of an instance goes from STARTING to RO or RW only in a
\* step of __bch2_fs_start, to RO with the read_only option and to RW
\* without it
C29_LeavesStartingOnlyInStart ==
    [][\A c \in Inst :
        (fs[c].state = "STARTING" /\ fs'[c].state \in {"RO", "RW"}) =>
           /\ last'.op = "start"
           /\ fs'[c].state = IF fs[c].opts.read_only THEN "RO" ELSE "RW"]_vars


\* The step writes a membership state for slot i: that of a new member, or a
\* different one for a member that stays
WritesMemberState(x, y, i) ==
    /\ y.devs[i].present
    /\ ~x.devs[i].present \/ y.devs[i].mi_state # x.devs[i].mi_state

\* The step removes the member in slot i or takes its block device offline
RemovesOrOfflines(x, y, i) ==
    x.devs[i].present /\ x.devs[i].online /\ ~y.devs[i].online

\* bch2_dev_state_allowed can answer true for slot i and the state
GuardCanAllow(x, i, new_state) ==
    \E flags \in ForceFlags, enough \in BOOLEAN :
        bch2_dev_state_allowed(x, i, new_state, flags, enough)

\* C30: a step that writes a membership state, removes a member or takes a
\* device offline is a step of set-state, remove or offline, the calls that
\* go through bch2_dev_state_allowed, and the guard allows the state written
\* (FAILED for a removal or an offlining) for that device
C30_GuardBeforeMembershipChange ==
    [][\A c \in Inst : \A i \in Slot :
        LET x == fs[c]
            y == fs'[c]
        IN  /\ WritesMemberState(x, y, i) =>
                 /\ last'.op = "dev_set_state"
                 /\ x.devs[i].present
                 /\ GuardCanAllow(x, i, y.devs[i].mi_state)
            /\ RemovesOrOfflines(x, y, i) =>
                 /\ last'.op \in {"dev_remove", "dev_offline"}
                 /\ GuardCanAllow(x, i, "FAILED")]_vars


\* C31: no call of bch2_dev_set_state that the instance accepts reaches
\* __bch2_dev_read_write for a member whose state is not RW, so that
\* BUG_ON(ca->mi.state != BCH_MEMBER_STATE_RW) never fires
C31_ReadWriteOnlyOnRwMember ==
    \A c \in LiveInst :
        UserMay(c) =>
           \A i \in Members(fs[c]) : \A arg \in DevSetStateInputs(fs[c], i) :
              ~DevSetStateBug(fs[c], i, arg.new_state, arg.flags, arg.enough)


\* C32: a bch2_dev_online or bch2_dev_set_state that returns an error leaves
\* every device as it was before the call - no allocator or moving-gc worker
\* started, no reserves added to the pool, no block device attached - and
\* the tiering worker as it was
C32_FailedDevOpLeavesPriorState ==
    [][\A c \in Inst :
        (\/ last' = Call("dev_online", c, "-EINVAL")
         \/ last' = Call("dev_set_state", c, "-ENOMEM")
         \/ last' = Call("dev_set_state", c, "-EINVAL"))
           => /\ fs'[c].devs = fs[c].devs
              /\ fs'[c].tiering = fs[c].tiering]_vars


\* C33: in __bch2_dev_offline the io_ref of the device is killed only with
\* its moving-gc worker and allocator stopped and its reserves out of the
\* pool, no reference is taken on it once it is killed, and the block device
\* is released only after the wait, when no I/O reference on the device is
\* held
C33_OfflineOrder ==
    [][\A c \in Inst :
        LET x == fs[c]
            y == fs'[c]
            i == x.off_dev
        IN  x.pc_off # "idle" =>
              /\ (~x.io_dead[i] /\ y.io_dead[i])
                    => /\ ~x.devs[i].moving_gc /\ ~x.devs[i].allocator
                       /\ ~x.devs[i].in_pool
                       /\ x.devs[i].online
              /\ x.io_dead[i] => y.io_ref[i] <= x.io_ref[i]
              /\ (x.devs[i].online /\ ~y.devs[i].online)
                    => /\ x.io_dead[i] /\ x.io_ref[i] = 0
                       /\ ~x.devs[i].moving_gc /\ ~x.devs[i].allocator
                       /\ ~x.devs[i].in_pool]_vars

\* bch2_dev_offline waits for an I/O that holds a reference on the killed
\* io_ref of a device that was read-write, the block device still attached
C33_Witness ==
    \E c \in LiveInst :
        /\ fs[c].pc_off = "wait"
        /\ fs[c].off_caller = "dev_offline"
        /\ fs[c].io_ref[fs[c].off_dev] > 0
        /\ fs[c].devs[fs[c].off_dev].online
        /\ fs[c].devs[fs[c].off_dev].mi_state = "RW"
        /\ ~fs[c].devs[fs[c].off_dev].allocator


\* The failure kinds the err: label of __bch2_fs_start tells apart by ret
StartFailureKinds == StartRets \ {"-EINVAL"}

\* C34: two calls of __bch2_fs_start that fail with different kinds of
\* failure in ret - fsck errors not fixed, repair unimplemented, repair
\* impossible, unknown version, out of memory, I/O error - return different
\* error strings
C34_FailureKindsDistinct ==
    \A c \in LiveInst :
        (UserMay(c) /\ fs[c].state = "STARTING") =>
           \A a, b \in StartInputs(fs[c]) :
              (/\ a[1].at \in RetSteps /\ b[1].at \in RetSteps
               /\ a[2] \in StartFailureKinds /\ b[2] \in StartFailureKinds
               /\ a[2] # b[2])
                 => StartRet(fs[c], a[1], a[2]) # StartRet(fs[c], b[1], b[2])


\* C35: for a device of n buckets bch2_dev_alloc makes the moving-gc reserve
\* max(16, n / 128), the general reserve max(4, n / 512), free_inc half the
\* moving-gc reserve and the copygc heap eight times the moving-gc reserve,
\* so that free_inc is smaller than the moving-gc reserve and at least 8
C35_ReserveSizes ==
    last.op = "dev_alloc" =>
       LET n == last.c
           r == last.val
       IN  /\ r.movinggc_reserve = (IF n \div 128 > 16 THEN n \div 128 ELSE 16)
           /\ r.reserve_none = (IF n \div 512 > 4 THEN n \div 512 ELSE 4)
           /\ r.free_inc_reserve = r.movinggc_reserve \div 2
           /\ r.heap_size = 8 * r.movinggc_reserve
           /\ r.free_inc_reserve < r.movinggc_reserve
           /\ r.free_inc_reserve >= 8

\* A device large enough for both reserves to be above their floors
C35_Witness ==
    /\ last.op = "dev_alloc"
    /\ last.val.movinggc_reserve > 16
    /\ last.val.reserve_none > 4
    /\ last.val.free_inc_reserve * 2 < last.val.movinggc_reserve


\* C36: while the instance is RO and no bch2_fs_read_only or
\* bch2_fs_read_write call is in progress, no device has a running allocator
\* or moving-gc worker, the tiering worker is stopped and no device is in the
\* allocation pool, whatever device operations ran since
C36_RoMeansQuiescent ==
    \A c \in LiveInst :
        (/\ ~panic
         /\ fs[c].state = "RO"
         /\ UserMay(c)
         /\ \A t \in Threads : fs[c].pc[t] = "idle")
        => /\ ~fs[c].tiering
           /\ \A i \in Slot : /\ ~fs[c].devs[i].allocator
                              /\ ~fs[c].devs[i].moving_gc
                              /\ ~fs[c].devs[i].in_pool


\* C37: every bch2_dev_offline or bch2_dev_remove that has entered
\* __bch2_dev_offline eventually returns with the state lock released, given
\* that every holder of an I/O reference on the device eventually drops it;
\* this includes the calls on a device that is already offline
C37_OfflineReturns ==
    \A c \in Inst :
        (fs[c].pc_off # "idle")
            ~> (/\ fs[c].pc_off = "idle"
                /\ fs[c].pc_remove = "idle"
                /\ fs[c].state_lock = "none")


\* C38: a thread that requests one of bch_fs_list_lock, state_lock and
\* sb_lock holds no lock that comes later in this order (nor the lock itself),
\* and no set of threads waits in a cycle for locks held within the set
C38_LockOrder ==
    /\ \A t \in LockThreads :
          LockNext(t)[1] = "lock" =>
              \A l \in LockHeld(t) : LockRank(l) < LockRank(LockNext(t)[2])
    /\ ~\E S \in SUBSET LockThreads :
          /\ S # {}
          /\ \A t \in S : /\ LockNext(t)[1] = "lock"
                          /\ LockState.owner[LockNext(t)[2]] \in S

\* A thread holding the list lock and the state lock waits for the
\* superblock lock, which another thread holds
C38_Witness ==
    \E t, u \in LockThreads :
        /\ t # u
        /\ LockHeld(t) = {"bch_fs_list_lock", "state_lock"}
        /\ LockNext(t) = <<"lock", "sb_lock">>
        /\ LockState.owner["sb_lock"] = u


\* C39: bch2_fs_read_write and __bch2_fs_start leave every device's io_ref
\* count as it was on entry, on their failure returns as on success
C39_IoRefsBalanced ==
    [][\A c \in Inst :
          (FsStartRefs(c) \/ FsReadWriteRefs(c))
              => fs'[c].io_ref = fs[c].io_ref]_vars

\* bch2_fs_read_write has returned the moving-gc failure at the second of two
\* RW members, left its loop early, and an I/O path still holds a reference
C39_Witness ==
    \E c \in LiveInst :
        /\ last = Call("read_write", c, "error starting moving GC thread")
        /\ \A i \in Slot : fs[c].devs[i].mi_state = "RW" /\ ~fs[c].io_dead[i]
        /\ fs[c].io_ref[0] = 1
        /\ fs[c].io_ref[1] = 2


\* The devices attached to the instance are too few to start on: a member
\* that is RW or RO has no online device, or bch2_have_enough_devs says no
InsufficientDevices(c) ==
    \/ \E i \in Slot : /\ bch2_dev_exists(fs[c].disk, i)
                       /\ fs[c].devs[i].mi_state \in {"RW", "RO"}
                       /\ ~fs[c].devs[i].online
    \/ last = Call("have_enough_devs", c, FALSE)

\* C40: on an insufficient device set (degraded option off) bch2_fs_open
\* returns "insufficient devices", freeing the instance it allocated without
\* running __bch2_fs_start and without registering it, and
\* bch2_fs_open_incremental does not go on to __bch2_fs_start
C40_NoStartOnInsufficientDevices ==
    [][\A c \in Inst :
          /\ (fs[c].pc_open = "may_start" /\ InsufficientDevices(c) /\ fs'[c] # fs[c])
                => /\ last' = Call("open", c, "insufficient devices")
                   /\ fs'[c].alloc = "freed"
                   /\ bch_fs_list' = bch_fs_list
          /\ (fs[c].pc_open = "inc_may_start" /\ InsufficientDevices(c) /\ fs'[c] # fs[c])
                => /\ fs'[c].pc_open # "inc_start"
                   /\ fs'[c].alloc = "live" => /\ fs'[c].state = "STARTING"
                                               /\ fs'[c].journal = fs[c].journal
                                               /\ fs'[c].devs = fs[c].devs]_vars

\* bch2_fs_open has returned "insufficient devices" and freed its instance
C40_Witness ==
    \E c \in Inst :
        /\ last = Call("open", c, "insufficient devices")
        /\ fs[c].alloc = "freed"
        /\ c \notin bch_fs_list

=============================================================================
